---- MODULE Spec2Model ----
(***************************************************************************)
(* Model of the web-ui duplex audio client:                                *)
(*   - useACEController (connection manager over one WebSocket),           *)
(*   - AudioPlayer (playback scheduler of useAudioPlayer),                 *)
(*   - pcmToWav / extractWavSampleRate (the audio container codec),        *)
(*   - useMicrophone, useChatHistory and useACEControllerURL,              *)
(* and of the container's entrypoint script.                               *)
(* The browser is the environment: it owns each WebSocket's readyState,    *)
(* delivers open / error / close events as separate tasks, owns the clock  *)
(* (performance.now) and fires the timers armed with setTimeout.           *)
(***************************************************************************)
EXTENDS Integers, Sequences, FiniteSets, TLC

(***************************************************************************)
(* Bounds of the exploration.                                              *)
(***************************************************************************)
\* number of WebSocket objects the manager may create in one run
MaxChannels == 2
\* number of WebSocket objects made in a run of reconnections
MaxReconnects == 3
\* number of sendAudioChunk calls in one run
MaxSends == 2
\* number of AudioPlayer.play calls in one run
MaxPlays == 4
\* number of AudioPlayer.interrupt calls in one run
MaxInterrupts == 1
\* number of message events delivered in one run
MaxMessages == 3
\* number of startRecording calls in one run
MaxStarts == 2
\* number of stopRecording calls in one run
MaxStops == 1

\* direct add() calls on the chat history
MaxAdds == 2
\* renders of the component that resolves the endpoint URL
MaxRenders == 3
\* the clock is let run idle (no timer pending) up to this time, in ms
MaxIdleNow == 1201
\* the step of the clock, in ms
TickMs == 400
\* the longest a due timeout is kept waiting, in ms
MaxLateMs == 400
\* INT or TERM signals sent to the entrypoint script in one run
MaxSignals == 1

(***************************************************************************)
(* Byte-level helpers (DataView setUint16 / setUint32, little endian).     *)
(***************************************************************************)
LE16(n) == << n % 256, (n \div 256) % 256 >>

LE32(n) == << n % 256, (n \div 256) % 256, (n \div 65536) % 256, (n \div 16777216) % 256 >>

\* charCodeAt of the four-character markers written by writeString
RIFF == << 82, 73, 70, 70 >>

WAVE == << 87, 65, 86, 69 >>

FMT == << 102, 109, 116, 32 >>

DATA == << 100, 97, 116, 97 >>

\* size of the RIFF/WAVE header written in front of the PCM payload
HeaderSize == 44

\* bitsPerSample: "Standard for PCM"
BitsPerSample == 16

\* pcmToWav writing the whole length as the RIFF chunk size
pcmToWavRiffSizeFull(audioDataBuffer, sampleRate, numChannels) ==
    LET dataSize   == Len(audioDataBuffer)
        byteLength == HeaderSize + dataSize
        byteRate   == sampleRate * numChannels * (BitsPerSample \div 8)
        blockAlign == numChannels * (BitsPerSample \div 8)
    IN  RIFF \o LE32(byteLength) \o WAVE
        \o FMT \o LE32(16) \o LE16(1) \o LE16(numChannels) \o LE32(sampleRate)
        \o LE32(byteRate) \o LE16(blockAlign) \o LE16(BitsPerSample)
        \o DATA \o LE32(dataSize)
        \o audioDataBuffer

\* pcmToWav(audioDataBuffer, sampleRate, numChannels): the container bytes
pcmToWav(audioDataBuffer, sampleRate, numChannels) ==
    LET dataSize   == Len(audioDataBuffer)
        byteLength == HeaderSize + dataSize
        byteRate   == sampleRate * numChannels * (BitsPerSample \div 8)
        blockAlign == numChannels * (BitsPerSample \div 8)
    IN  RIFF \o LE32(byteLength - 8) \o WAVE
        \o FMT \o LE32(16) \o LE16(1) \o LE16(numChannels) \o LE32(sampleRate)
        \o LE32(byteRate) \o LE16(blockAlign) \o LE16(BitsPerSample)
        \o DATA \o LE32(dataSize)
        \o audioDataBuffer

\* DataView.getUint32(at, true) of the bytes b, at counted from 0
U32LE(b, at) ==
    b[at + 1] + b[at + 2] * 256 + b[at + 3] * 65536 + b[at + 4] * 16777216

\* DataView.getUint16(at, true) of the bytes b, at counted from 0
U16LE(b, at) == b[at + 1] + b[at + 2] * 256

\* extractWavSampleRate reading the byte-rate field (getUint32(28, true))
extractWavSampleRateOfByteRate(b) ==
    IF Len(b) < 12
    THEN [ thrown |-> "RangeError", value |-> 0 ]
    ELSE IF SubSeq(b, 1, 4) # RIFF \/ SubSeq(b, 9, 12) # WAVE
    THEN [ thrown |-> "Invalid WAV file", value |-> 0 ]
    ELSE IF Len(b) < 32
    THEN [ thrown |-> "RangeError", value |-> 0 ]
    ELSE [ thrown |-> "none", value |-> U32LE(b, 28) ]

\* extractWavSampleRate(arrayBuffer): the value returned, or the exception
\* thrown: a DataView read past the end is a RangeError, and the markers
\* are read (bytes 0-3 and 8-11) before they are tested
extractWavSampleRate(b) ==
    IF Len(b) < 12
    THEN [ thrown |-> "RangeError", value |-> 0 ]
    ELSE IF SubSeq(b, 1, 4) # RIFF \/ SubSeq(b, 9, 12) # WAVE
    THEN [ thrown |-> "Invalid WAV file", value |-> 0 ]
    ELSE IF Len(b) < 28
    THEN [ thrown |-> "RangeError", value |-> 0 ]
    ELSE [ thrown |-> "none", value |-> U32LE(b, 24) ]

(***************************************************************************)
(* Inputs of the codec.                                                    *)
(***************************************************************************)
\* PCM payloads: none, an odd byte, two samples, two extreme samples, and
\* the five samples 1..5 of the hook's test
PcmInputs ==
    { << >>, << 7 >>, << 1, 0, 2, 0 >>, << 255, 255, 0, 128 >>,
      << 1, 0, 2, 0, 3, 0, 4, 0, 5, 0 >> }

\* (pcm, sampleRate, numChannels); the last rate uses all four bytes of
\* its field
EncodeInputs ==
    [ pcm : PcmInputs,
      sampleRate : { 8000, 16000, 44100, 48000, 50331653 },
      numChannels : { 1, 2 } ]

\* Byte sequences given to extractWavSampleRate: every prefix of a
\* container, and the container with one of its first twelve bytes zeroed
PeekInputs ==
    LET w == pcmToWav(<< 1, 0 >>, 16000, 1)
    IN  { SubSeq(w, 1, n) : n \in 0 .. Len(w) }
          \cup { [ w EXCEPT ![k] = 0 ] : k \in 1 .. 12 }

(***************************************************************************)
(* Inputs of sendAudioChunk.                                               *)
(***************************************************************************)
\* (chunk, sampleRate, numChannels): the five 16-bit samples 1..5 of the
\* hook's own test at the microphone's 16 kHz mono, and one stereo frame at
\* another rate
SendInputs ==
    { << << 1, 0, 2, 0, 3, 0, 4, 0, 5, 0 >>, 16000, 1 >>,
      << << 1, 0, 2, 0 >>, 44100, 2 >> }

(***************************************************************************)
(* State.                                                                  *)
(***************************************************************************)
VARIABLES
    connectionStatus,  \* useState<ConnectionStatus>
    websocketRef,      \* websocketRef.current: a channel id, 0 for null
    channels,          \* the WebSocket objects created so far, by id
    unloadRegistered,  \* window.onbeforeunload has been assigned
    sendCount,         \* history: number of sendAudioChunk calls so far
    warned,            \* the calls that logged "Websocket is not open"
    lastSend,          \* history: the sendAudioChunk call that ran last
    connLast           \* history: the handler that ran last

connVars == << connectionStatus, websocketRef, channels, unloadRegistered,
               sendCount, warned, lastSend, connLast >>

VARIABLES
    now,               \* performance.now(), in ms
    audioCtxRate,      \* this.audioCtx.sampleRate
    offset,            \* this.offset, in samples
    sequenceDuration,  \* this.currentAudioSequenceDuration, in ms
    sequenceStartedAt, \* this.currentAudioSequenceStartedAt, in ms; 0: unset
    timeUntilAudioCompleted, \* this.timeUntilAudioCompleted, in ms
    timerID,           \* this.timerID; 0 for null
    audioBuffer,       \* this.audioBuffer: its rate, length and samples held
    source,            \* this.source: the current AudioBufferSourceNode
    lingering,         \* replaced source nodes still connected to a destination
    timers,            \* the browser's pending timeouts: [id, due]
    timerSeq,          \* the last timeout id the browser handed out
    playCount,         \* history: number of play calls so far
    streamEnded,       \* the last chunk has been played: no play call follows
    interruptCount,    \* history: number of interrupt calls so far
    playLast           \* history: the method that ran last, and what it found

playerVars == << now, audioCtxRate, offset, sequenceDuration, sequenceStartedAt,
                 timeUntilAudioCompleted, timerID, audioBuffer, source, lingering,
                 timers, timerSeq, playCount, streamEnded, interruptCount,
                 playLast >>

VARIABLES
    inbox,             \* history: the message events delivered, in arrival order
    audioCtxRef,       \* audioCtxRef.current: its sampleRate, 0 for null
    decoding,          \* the decodeAudioData promises not settled yet
    audioChunks,       \* history: the params.onAudioChunk calls, in call order
    textCalls,         \* history: the params.onTTS / onASR calls, in call order
    rxWarned,          \* the messages for which logger.warn was called
    rxErrorCalls,      \* number of params.onError calls made for a message
    rxLast             \* history: the message step that ran last

msgVars == << inbox, audioCtxRef, decoding, audioChunks, textCalls, rxWarned,
              rxErrorCalls, rxLast >>

VARIABLES
    micAccessState,    \* microphoneState.micAccessState
    micError,          \* microphoneState.error: its cause, "null" for null
    isRecording,       \* microphoneState.isRecording
    micAudioCtx,       \* useMicrophone's audioCtxRef.current: its state, or "null"
    sources,           \* number of createMediaStreamSource calls so far
    taps,              \* number of AudioWorkletNodes connected to a source
    gumCalls,          \* number of navigator.mediaDevices.getUserMedia calls
    requests,          \* the requestAccess calls suspended at an await
    secureContext,     \* isSecureContext: "unread" until requestAccess reads it
    startCalls,        \* history: number of startRecording calls so far
    stopCalls,         \* history: number of stopRecording calls so far
    micErrorCalls,     \* history: the onError calls, in call order
    accessTrace,       \* history: micAccessState after each dispatch that sets it
    micLast,           \* history: the step that ran last, and what it found
    micCall            \* history: the last call of the page, start or stop

micVars == << micAccessState, micError, isRecording, micAudioCtx, sources, taps,
              gumCalls, requests, secureContext, startCalls, stopCalls,
              micErrorCalls, accessTrace, micLast, micCall >>

VARIABLES
    captured           \* history: the chunks the worklet nodes posted, in order

VARIABLES
    wavIn,             \* the arguments of a pcmToWav call
    wavOut,            \* the ArrayBuffer it returned; empty before the call
    wavRate,           \* the outcome of extractWavSampleRate on wavOut
    peekIn,            \* the bytes given to an extractWavSampleRate call
    peekOut            \* the outcome of that call

codecVars == << wavIn, wavOut, wavRate, peekIn, peekOut >>

VARIABLES
    entries,           \* useChatHistory: the entries state of the latest render
    socketEntries,     \* per channel, the entries value its onmessage handler
                       \* closed over when connect() assigned it
    addCount,          \* direct add() calls made
    chatLast           \* history: the last add call and the entries before it

chatVars == << entries, socketEntries, addCount, chatLast >>

VARIABLES
    locationParam,     \* the ace-controller-url query parameter of the page
    urlRef,            \* useACEControllerURL: urlRef.current
    urlErrors,         \* history: the arguments onError was called with
    renderCount,       \* renders of the hook so far
    urlFirst,          \* history: the parameter the first render read
    urlLast            \* history: baseUrl before and after the last render

urlVars == << locationParam, urlRef, urlErrors, renderCount, urlFirst, urlLast >>

VARIABLES
    scriptPc,          \* the entrypoint script: where it is
    attempts,          \* ATTEMPTS
    trapSet,           \* trap cleanup EXIT INT TERM has run
    exitStatus,        \* the script's exit status; -1 while it runs
    exitFrom,          \* history: where the script was when it exited
    children,          \* the processes of PIPELINE_PID and LANGGRAPH_PID
    ready,             \* the pipeline answers on 127.0.0.1:7860/get_prompt
    signals            \* history: INT or TERM signals sent to the script

entryVars == << scriptPc, attempts, trapSet, exitStatus, exitFrom, children,
                ready, signals >>

\* the state outside the chat history that connect() and onmessage leave alone
pageVars == << captured, codecVars, urlVars, entryVars >>

\* the state outside the four components above
appVars == << captured, codecVars, chatVars, urlVars, entryVars >>

\* the state of the web UI, which the entrypoint script leaves alone
webVars == << connVars, playerVars, msgVars, micVars, captured, codecVars,
              chatVars, urlVars >>

vars == << connVars, playerVars, msgVars, micVars, appVars >>

ChannelIds == 1 .. MaxChannels

\* A WebSocket object: the browser's readyState, the events already
\* delivered to its handlers (errorIn: the connection status in which the
\* error event arrived), the frames written with send(), and the messages
\* given to params.onError by handlers running for this channel.
NewChannel ==
    [ readyState  |-> "CONNECTING",
      opened      |-> FALSE,
      errorFired  |-> FALSE,
      errorIn     |-> "none",
      closeFired  |-> "no",
      frames      |-> << >>,
      errorsShown |-> << >> ]

Created == DOMAIN channels

\* number of frames written so far, over all channels
RECURSIVE FramesWritten(_, _)
FramesWritten(chs, n) ==
    IF n = 0 THEN 0 ELSE Len(chs[n].frames) + FramesWritten(chs, n - 1)

NoSend == [ call |-> 0 ]

\* the record kept in connLast: the handler, the channel it ran for, and
\* the status, the ref and the current socket's readyState it found
Ran(op, c) ==
    [ op |-> op, chan |-> c, status |-> connectionStatus, ref |-> websocketRef,
      readyState |-> IF websocketRef = 0 THEN "none"
                     ELSE channels[websocketRef].readyState ]

ConnInit ==
    /\ connectionStatus = "disconnected"
    /\ websocketRef = 0
    /\ channels = << >>
    /\ unloadRegistered = FALSE
    /\ sendCount = 0
    /\ warned = { }
    /\ lastSend = NoSend
    /\ connLast = Ran("init", 0)

\* ws.close(1000) as the browser performs it: a connecting or open socket
\* starts closing, a closing or closed one is left alone; null?.close is
\* not called at all.
CloseCall(chs, w) ==
    IF w # 0 /\ chs[w].readyState \in { "CONNECTING", "OPEN" }
    THEN [ chs EXCEPT ![w].readyState = "CLOSING" ]
    ELSE chs

\* params.onError(error) invoked by a handler of channel c
ReportError(chs, c, msg) ==
    [ chs EXCEPT ![c].errorsShown = Append(@, msg) ]

\* The manager's state as the handlers see it: the status, the ref and the
\* WebSocket objects.
ConnState == [ status |-> connectionStatus, ref |-> websocketRef, chs |-> channels ]

\* onError that leaves websocketRef.current as it was
onErrorKeepsRef(st, c, msg) ==
    [ status |-> "disconnected",
      chs    |-> CloseCall(ReportError(st.chs, c, msg), st.ref),
      ref    |-> st.ref ]

\* onError(error), run for an event of channel c
onError(st, c, msg) ==
    [ status |-> "disconnected",
      chs    |-> CloseCall(ReportError(st.chs, c, msg), st.ref),
      ref    |-> 0 ]

\* onOpen()
onOpen(st) == [ st EXCEPT !.status = "connected" ]

\* onClose with the test on e.wasClean negated
onCloseNegated(st, c, wasClean) ==
    LET s1 == IF ~ wasClean
              THEN onError(st, c, "Websocket closed unexpectedly")
              ELSE st
    IN  [ s1 EXCEPT !.status = "disconnected", !.ref = 0 ]

\* onClose(e), run for the close event of channel c
onClose(st, c, wasClean) ==
    LET s1 == IF wasClean
              THEN onError(st, c, "Websocket closed unexpectedly")
              ELSE st
    IN  [ s1 EXCEPT !.status = "disconnected", !.ref = 0 ]

\* onWindowUnload()
onWindowUnload(st) ==
    [ st EXCEPT !.status = "disconnected", !.chs = CloseCall(st.chs, st.ref) ]

\* connect that reports the connection as established at once
connectEager(st) ==
    IF st.ref = 0
    THEN [ status |-> "connected",
           chs    |-> Append(st.chs, NewChannel),
           ref    |-> Len(st.chs) + 1 ]
    ELSE st

\* connect without the test on websocketRef.current
connectAlways(st) ==
    [ status |-> "connecting",
      chs    |-> Append(st.chs, NewChannel),
      ref    |-> Len(st.chs) + 1 ]

\* connect()
connect(st) ==
    IF st.ref = 0
    THEN [ status |-> "connecting",
           chs    |-> Append(st.chs, NewChannel),
           ref    |-> Len(st.chs) + 1 ]
    ELSE st

\* the early return taken only when there is no socket at all
sendWarnsNoSocket(st) == st.ref = 0

\* sendAudioChunk: the guard of its early return, which logs the warning
sendWarns(st) == st.ref = 0 \/ st.chs[st.ref].readyState # "OPEN"

\* sendAudioChunk that leaves numChannels to pcmToWav's default of 1
sendAudioChunkMono(st, call, chunk, sampleRate, numChannels) ==
    IF sendWarns(st)
    THEN st.chs
    ELSE [ st.chs EXCEPT ![st.ref].frames =
             Append(@, [ call |-> call,
                         bytes |-> pcmToWav(chunk, sampleRate, 1) ]) ]

\* sendAudioChunk(chunk, sampleRate, numChannels): the WebSocket objects
\* after the call, the call-th of the run
sendAudioChunk(st, call, chunk, sampleRate, numChannels) ==
    IF sendWarns(st)
    THEN st.chs
    ELSE [ st.chs EXCEPT ![st.ref].frames =
             Append(@, [ call |-> call,
                         bytes |-> pcmToWav(chunk, sampleRate, numChannels) ]) ]

Commit(st) ==
    /\ connectionStatus' = st.status
    /\ websocketRef' = st.ref
    /\ channels' = st.chs

(***************************************************************************)
(* Actions of the connection manager: calls of the hook's API.             *)
(***************************************************************************)
\* connect(), in a run that makes at most limit sockets
ConnectWithin(limit) ==
    /\ websocketRef = 0 => Len(channels) < limit
    /\ Commit(connect(ConnState))
    /\ unloadRegistered' = (unloadRegistered \/ websocketRef = 0)
    /\ connLast' = Ran(IF websocketRef = 0 THEN "connect" ELSE "connect-noop",
                       websocketRef')
    /\ UNCHANGED << sendCount, warned >>
    /\ lastSend' = NoSend
    /\ socketEntries' = IF websocketRef = 0 THEN Append(socketEntries, entries)
                        ELSE socketEntries
    /\ UNCHANGED << entries, addCount, chatLast >>
    /\ UNCHANGED << playerVars, msgVars, micVars, pageVars >>

Connect == ConnectWithin(MaxChannels)

SendAudioChunk ==
    /\ sendCount < MaxSends
    /\ \E input \in SendInputs :
         LET call == sendCount + 1
             chs  == sendAudioChunk(ConnState, call, input[1], input[2], input[3])
         IN  /\ channels' = chs
             /\ sendCount' = call
             /\ warned' = IF sendWarns(ConnState) THEN warned \cup { call } ELSE warned
             /\ lastSend' = [ call         |-> call,
                              status       |-> connectionStatus,
                              chan         |-> websocketRef,
                              readyState   |-> IF websocketRef = 0 THEN "none"
                                               ELSE channels[websocketRef].readyState,
                              framesBefore |-> FramesWritten(channels, Len(channels)),
                              chunk        |-> input[1],
                              sampleRate   |-> input[2],
                              numChannels  |-> input[3] ]
    /\ connLast' = Ran("send", websocketRef)
    /\ UNCHANGED << connectionStatus, websocketRef, unloadRegistered >>
    /\ UNCHANGED << playerVars, msgVars, micVars, appVars >>

(***************************************************************************)
(* Actions of the browser: one per task it runs.                           *)
(***************************************************************************)
\* the connection is established: readyState becomes OPEN and the open
\* event is fired at the socket
OpenEvent(c) ==
    /\ channels[c].readyState = "CONNECTING"
    /\ Commit(onOpen([ ConnState EXCEPT
                         !.chs = [ channels EXCEPT ![c].readyState = "OPEN",
                                                   ![c].opened = TRUE ] ]))
    /\ connLast' = Ran("open", c)
    /\ UNCHANGED << unloadRegistered, sendCount, warned >>
    /\ lastSend' = NoSend
    /\ UNCHANGED << playerVars, msgVars, micVars, appVars >>

\* the server starts the closing handshake: readyState becomes CLOSING,
\* no event is fired
ClosingHandshakeStarted(c) ==
    /\ channels[c].readyState = "OPEN"
    /\ channels' = [ channels EXCEPT ![c].readyState = "CLOSING" ]
    /\ connLast' = Ran("closing", c)
    /\ UNCHANGED << connectionStatus, websocketRef, unloadRegistered, sendCount, warned >>
    /\ lastSend' = NoSend
    /\ UNCHANGED << playerVars, msgVars, micVars, appVars >>

\* the connection fails: readyState becomes CLOSED and the error event is
\* fired at the socket (ws.onerror)
ErrorEvent(c) ==
    /\ channels[c].readyState \in { "CONNECTING", "OPEN", "CLOSING" }
    /\ ~ channels[c].errorFired
    /\ Commit(onError([ ConnState EXCEPT
                          !.chs = [ channels EXCEPT ![c].readyState = "CLOSED",
                                                    ![c].errorFired = TRUE,
                                                    ![c].errorIn = connectionStatus ] ],
                      c, "Failed to establish a websocket connection"))
    /\ connLast' = Ran("error", c)
    /\ UNCHANGED << unloadRegistered, sendCount, warned >>
    /\ lastSend' = NoSend
    /\ UNCHANGED << playerVars, msgVars, micVars, appVars >>

\* the connection is closed: readyState becomes CLOSED and the close event
\* is fired at the socket. After a failure the close is never clean; a
\* clean close ends a closing handshake of a socket that was open.
CloseEvent(c, wasClean) ==
    /\ channels[c].closeFired = "no"
    /\ \/ channels[c].errorFired /\ ~ wasClean
       \/ /\ ~ channels[c].errorFired
          /\ channels[c].opened
          /\ channels[c].readyState \in { "OPEN", "CLOSING" }
          /\ wasClean => channels[c].readyState = "CLOSING"
    /\ Commit(onClose([ ConnState EXCEPT
                          !.chs = [ channels EXCEPT
                                      ![c].readyState = "CLOSED",
                                      ![c].closeFired =
                                          IF wasClean THEN "clean" ELSE "unclean" ] ],
                      c, wasClean))
    /\ connLast' = Ran("close", c)
    /\ UNCHANGED << unloadRegistered, sendCount, warned >>
    /\ lastSend' = NoSend
    /\ UNCHANGED << playerVars, msgVars, micVars, appVars >>

\* the page is about to unload: window.onbeforeunload runs
WindowUnload ==
    /\ unloadRegistered
    /\ Commit(onWindowUnload(ConnState))
    /\ connLast' = Ran("unload", websocketRef)
    /\ UNCHANGED << unloadRegistered, sendCount, warned >>
    /\ lastSend' = NoSend
    /\ UNCHANGED << playerVars, msgVars, micVars, appVars >>

ConnNext ==
    \/ Connect
    \/ SendAudioChunk
    \/ \E c \in Created : OpenEvent(c)
    \/ \E c \in Created : ClosingHandshakeStarted(c)
    \/ \E c \in Created : ErrorEvent(c)
    \/ \E c \in Created, wasClean \in BOOLEAN : CloseEvent(c, wasClean)
    \/ WindowUnload

\* The manager reconnecting after failures: connect() calls and the events
\* of the sockets, without audio being sent.
ReconnectNext ==
    \/ ConnectWithin(MaxReconnects)
    \/ \E c \in Created : OpenEvent(c)
    \/ \E c \in Created : ClosingHandshakeStarted(c)
    \/ \E c \in Created : ErrorEvent(c)
    \/ \E c \in Created, wasClean \in BOOLEAN : CloseEvent(c, wasClean)

(***************************************************************************)
(* Inbound messages (ws.onmessage).  A binary message is an ArrayBuffer:   *)
(* its bytes, and whether decodeAudioData can decode them.  A text message *)
(* is the object JSON.parse makes of it: its type, tts and asr members     *)
(* ("undefined" for a member it has not).                                  *)
(***************************************************************************)
Binary(bytes, decodable) ==
    [ kind |-> "binary", bytes |-> bytes, decodable |-> decodable,
      type |-> "", tts |-> "", asr |-> "" ]

Text(type, tts, asr) ==
    [ kind |-> "text", bytes |-> << >>, decodable |-> FALSE,
      type |-> type, tts |-> tts, asr |-> asr ]

\* The messages the server may send: containers at 16 kHz and at 44.1 kHz,
\* one whose payload cannot be decoded, one announcing a rate of 0 Hz, one
\* with a wrong marker, one of four bytes; a TTS update, an ASR update and
\* a message of another type.
RxFrames ==
    { Binary(pcmToWav(<< 1, 0, 2, 0 >>, 16000, 1), TRUE),
      Binary(pcmToWav(<< 1, 0 >>, 44100, 1), TRUE),
      Binary(pcmToWav(<< 1, 0, 2, 0 >>, 16000, 1), FALSE),
      Binary(pcmToWav(<< 1, 0 >>, 0, 1), TRUE),
      Binary(<< 0 >> \o Tail(pcmToWav(<< 1, 0 >>, 16000, 1)), TRUE),
      Binary(RIFF, TRUE),
      Text("tts_update", "hello", "undefined"),
      Text("asr_update", "undefined", "hi there"),
      Text("ping", "undefined", "undefined") }

\* new AudioContext({ sampleRate }) throws NotSupportedError for a rate the
\* browser does not support
SupportedRate(rate) == rate >= 3000 /\ rate <= 768000

\* What the message handlers read and write: the connection status, the
\* callbacks' histories, audioCtxRef.current and the pending decodes.
RxState ==
    [ status      |-> connectionStatus,
      errorCalls  |-> rxErrorCalls,
      ctx         |-> audioCtxRef,
      decoding    |-> decoding,
      audioChunks |-> audioChunks,
      textCalls   |-> textCalls,
      warned      |-> rxWarned ]

\* logger.warn for message m
Warn(st, m) == [ st EXCEPT !.warned = @ \cup { m } ]

\* handleAudioMessage whose catch hands the error to onError
handleAudioMessageReports(st, m, data) ==
    LET r == extractWavSampleRate(data.bytes)
    IN  IF r.thrown # "none" \/ ~ SupportedRate(r.value)
        THEN [ st EXCEPT !.status = "disconnected", !.errorCalls = @ + 1 ]
        ELSE [ st EXCEPT
                 !.ctx = r.value,
                 !.decoding = @ \cup { [ msg |-> m, sampleRate |-> r.value,
                                         ok |-> data.decodable ] } ]

\* handleAudioMessage(data) for message m, up to its await: the header
\* peek, the AudioContext made when there is none or its rate differs, and
\* the decodeAudioData call; an exception is caught and logged
handleAudioMessage(st, m, data) ==
    LET r == extractWavSampleRate(data.bytes)
    IN  IF r.thrown # "none"
        THEN Warn(st, m)
        ELSE IF ( st.ctx = 0 \/ st.ctx # r.value ) /\ ~ SupportedRate(r.value)
        THEN Warn(st, m)
        ELSE [ st EXCEPT
                 !.ctx = r.value,
                 !.decoding = @ \cup { [ msg |-> m, sampleRate |-> r.value,
                                         ok |-> data.decodable ] } ]

\* handleAudioMessage after its await, when the promise d has settled:
\* params.onAudioChunk(audioBuffer), or the rejection caught and logged
handleAudioMessageResumed(st, d) ==
    LET s1 == [ st EXCEPT !.decoding = @ \ { d } ]
    IN  IF d.ok
        THEN [ s1 EXCEPT !.audioChunks =
                 Append(@, [ msg |-> d.msg, sampleRate |-> d.sampleRate ]) ]
        ELSE Warn(s1, d.msg)

\* handleTTSUpdate(data)
handleTTSUpdate(st, m, data) ==
    [ st EXCEPT !.textCalls =
        Append(@, [ handler |-> "onTTS", msg |-> m, text |-> data.tts ]) ]

\* handleASRUpdate that calls the TTS handler
handleASRUpdateAsTTS(st, m, data) ==
    [ st EXCEPT !.textCalls =
        Append(@, [ handler |-> "onTTS", msg |-> m, text |-> data.asr ]) ]

\* handleASRUpdate(data)
handleASRUpdate(st, m, data) ==
    [ st EXCEPT !.textCalls =
        Append(@, [ handler |-> "onASR", msg |-> m, text |-> data.asr ]) ]

\* onMessage whose default case is handled as a TTS update
onMessageDefaultTTS(st, m, event) ==
    IF event.kind = "binary"
    THEN handleAudioMessage(st, m, event)
    ELSE IF event.type = "asr_update"
    THEN handleASRUpdate(st, m, event)
    ELSE handleTTSUpdate(st, m, event)

\* onMessage(event) for message m
onMessage(st, m, event) ==
    IF event.kind = "binary"
    THEN handleAudioMessage(st, m, event)
    ELSE IF event.type = "tts_update"
    THEN handleTTSUpdate(st, m, event)
    ELSE IF event.type = "asr_update"
    THEN handleASRUpdate(st, m, event)
    ELSE Warn(st, m)

CommitMsg(st) ==
    /\ connectionStatus' = st.status
    /\ rxErrorCalls' = st.errorCalls
    /\ audioCtxRef' = st.ctx
    /\ decoding' = st.decoding
    /\ audioChunks' = st.audioChunks
    /\ textCalls' = st.textCalls
    /\ rxWarned' = st.warned

\* the record kept in rxLast: the step, the message it ran for, and the
\* status and the callbacks' histories it found
Received(op, m) ==
    [ op |-> op, msg |-> m, status |-> connectionStatus,
      errorCalls |-> rxErrorCalls, audioChunks |-> audioChunks,
      textCalls |-> textCalls ]

MsgInit ==
    /\ inbox = << >>
    /\ audioCtxRef = 0
    /\ decoding = { }
    /\ audioChunks = << >>
    /\ textCalls = << >>
    /\ rxWarned = { }
    /\ rxErrorCalls = 0
    /\ rxLast = Received("init", 0)

(***************************************************************************)
(* useChatHistory.  add, addThem and addUs are made anew by every render   *)
(* and close over the entries value of that render, here closureEntries.   *)
(***************************************************************************)
\* add(text, author): setEntries([...entries, { text, author }])
add(closureEntries, text, author) ==
    Append(closureEntries, [ text |-> text, author |-> author ])

\* addThem(text)
addThem(closureEntries, text) == add(closureEntries, text, "them")

\* addUs(text)
addUs(closureEntries, text) == add(closureEntries, text, "us")

\* App: onTTS is chatHistory.addThem and onASR is chatHistory.addUs
AuthorOf(handler) == IF handler = "onTTS" THEN "them" ELSE "us"

\* params.onTTS(text) or params.onASR(text), as the handler call describes
deliverText(closureEntries, call) ==
    IF call.handler = "onTTS"
    THEN addThem(closureEntries, call.text)
    ELSE addUs(closureEntries, call.text)

\* the record kept in chatLast: the call, its arguments, and the entries
\* of the latest render before it
Added(op, text, author) ==
    [ op |-> op, text |-> text, author |-> author, entries |-> entries ]

ChatInit ==
    /\ entries = << >>
    /\ socketEntries = << >>
    /\ addCount = 0
    /\ chatLast = Added("init", "", "")

\* The texts a caller of add() passes
ChatTexts == { "Hello", "Bye" }

\* add(text, author) called on the handlers of the latest render
AddEntry ==
    /\ addCount < MaxAdds
    /\ addCount' = addCount + 1
    /\ \E text \in ChatTexts, author \in { "us", "them" } :
         /\ entries' = add(entries, text, author)
         /\ chatLast' = Added("add", text, author)
    /\ UNCHANGED socketEntries
    /\ UNCHANGED << connVars, playerVars, msgVars, micVars, pageVars >>

\* a message arrives on channel c: the message event is fired at the socket,
\* whose onmessage is the handler connect() assigned when it made channel c
MessageEvent(c) ==
    /\ Len(inbox) < MaxMessages
    /\ channels[c].readyState \in { "OPEN", "CLOSING" }
    /\ \E event \in RxFrames :
         LET st == onMessage(RxState, Len(inbox) + 1, event)
             called == Len(st.textCalls) > Len(textCalls)
             call == st.textCalls[Len(st.textCalls)]
         IN  /\ CommitMsg(st)
             /\ inbox' = Append(inbox, event)
             /\ entries' = IF called THEN deliverText(socketEntries[c], call)
                           ELSE entries
             /\ chatLast' = IF called
                            THEN Added("message", call.text, AuthorOf(call.handler))
                            ELSE chatLast
    /\ rxLast' = Received("message", Len(inbox) + 1)
    /\ UNCHANGED << websocketRef, channels, unloadRegistered, sendCount, warned,
                    lastSend, connLast >>
    /\ UNCHANGED << socketEntries, addCount >>
    /\ UNCHANGED << playerVars, micVars, pageVars >>

\* a decodeAudioData promise settles; the decodes run off the main thread
\* and settle in any order
DecodeSettles ==
    /\ \E d \in decoding :
         /\ CommitMsg(handleAudioMessageResumed(RxState, d))
         /\ rxLast' = Received("decoded", d.msg)
    /\ UNCHANGED inbox
    /\ UNCHANGED << websocketRef, channels, unloadRegistered, sendCount, warned,
                    lastSend, connLast >>
    /\ UNCHANGED << playerVars, micVars, appVars >>

MsgNext ==
    \/ Connect
    \/ \E c \in Created : OpenEvent(c)
    \/ \E c \in Created : MessageEvent(c)
    \/ DecodeSettles

\* The chat history fed by both of its callers: the page's own add() calls
\* and the text messages of the connection.
ChatNext ==
    \/ Connect
    \/ \E c \in Created : OpenEvent(c)
    \/ \E c \in Created : MessageEvent(c)
    \/ AddEntry


(***************************************************************************)
(* AudioPlayer (useAudioPlayer).  Times are in milliseconds, as            *)
(* performance.now() and setTimeout count them; the durations the code     *)
(* keeps in seconds are kept in milliseconds, and the chunks played are    *)
(* such that their durations are whole milliseconds.                       *)
(***************************************************************************)
AUDIO_BUFFER_LENGTH_SEC == 120

INITIAL_SAMPLE_RATE == 16000

\* MIN_BUFFER_DURATION_BEFORE_START_SEC (0.8 s), in ms
MIN_BUFFER_DURATION_BEFORE_START_MS == 800

\* The chunks given to play(): [sampleRate, length in samples].
\* 0.4 s and 100 s at the initial rate, 0.4 s and 0.8 s at 44100 Hz.
PlayChunks ==
    { [ sampleRate |-> 16000, length |-> 6400 ],
      [ sampleRate |-> 16000, length |-> 1600000 ],
      [ sampleRate |-> 44100, length |-> 17640 ],
      [ sampleRate |-> 44100, length |-> 35280 ] }

\* buffer.length / this.audioCtx.sampleRate, in ms: length * 1000 /
\* sampleRate, computed without leaving 32 bits (the rates are multiples
\* of 100)
chunkDuration(length, sampleRate) == (length * 10) \div (sampleRate \div 100)

\* createNewAudioBuffer(): a silent mono buffer of 120 s at the context's
\* rate; chunks lists the samples stored in it since
createNewAudioBuffer(sampleRate) ==
    [ sampleRate |-> sampleRate,
      length     |-> sampleRate * AUDIO_BUFFER_LENGTH_SEC,
      chunks     |-> << >> ]

\* this.audioCtx.createBufferSource(), with the buffer set and connected
\* to the destination; starts counts the start() calls on it
NewSource == [ starts |-> 0 ]

\* clearTimeout that leaves the timeout pending
clearTimeoutNoop(tms, id) == tms

\* clearTimeout(id)
clearTimeout(tms, id) == { tm \in tms : tm.id # id }

\* The player's fields and the browser's timeouts, as the methods see them.
PlayerState ==
    [ audioCtxRate |-> audioCtxRate,
      offset |-> offset,
      sequenceDuration |-> sequenceDuration,
      sequenceStartedAt |-> sequenceStartedAt,
      timeUntilAudioCompleted |-> timeUntilAudioCompleted,
      timerID |-> timerID,
      audioBuffer |-> audioBuffer,
      source |-> source,
      lingering |-> lingering,
      timers |-> timers,
      timerSeq |-> timerSeq ]

\* reset that leaves the write offset where it was
resetKeepsOffset(st) ==
    [ st EXCEPT
        !.lingering = IF st.source.starts = 0 THEN @ + 1 ELSE @,
        !.sequenceDuration = 0,
        !.sequenceStartedAt = 0,
        !.timeUntilAudioCompleted = 0,
        !.timers = IF st.timerID # 0 THEN clearTimeout(@, st.timerID) ELSE @,
        !.timerID = 0,
        !.audioBuffer = createNewAudioBuffer(st.audioCtxRate),
        !.source = NewSource ]

\* reset without the try around source.stop(): on a node that was never
\* started the exception leaves reset before any field is assigned
resetUncaught(st) ==
    IF st.source.starts = 0
    THEN st
    ELSE [ st EXCEPT
             !.offset = 0,
             !.sequenceDuration = 0,
             !.sequenceStartedAt = 0,
             !.timeUntilAudioCompleted = 0,
             !.timers = IF st.timerID # 0 THEN clearTimeout(@, st.timerID) ELSE @,
             !.timerID = 0,
             !.audioBuffer = createNewAudioBuffer(st.audioCtxRate),
             !.source = NewSource ]

\* reset(): source.stop() throws on a node that was never started, and the
\* catch then skips source.disconnect(): that node stays connected
reset(st) ==
    [ st EXCEPT
        !.lingering = IF st.source.starts = 0 THEN @ + 1 ELSE @,
        !.offset = 0,
        !.sequenceDuration = 0,
        !.sequenceStartedAt = 0,
        !.timeUntilAudioCompleted = 0,
        !.timers = IF st.timerID # 0 THEN clearTimeout(@, st.timerID) ELSE @,
        !.timerID = 0,
        !.audioBuffer = createNewAudioBuffer(st.audioCtxRate),
        !.source = NewSource ]

\* play(): the part up to the pre-roll test.  channel is taken from the
\* buffer held on entry, so after a reset for a new sample rate the samples
\* go to the buffer that was replaced; a write past the end of a
\* Float32Array stores nothing.
playAppend(st, chunk, call) ==
    LET changed == chunk.sampleRate # st.audioCtxRate
        s1 == IF changed
              THEN reset([ st EXCEPT !.audioCtxRate = chunk.sampleRate ])
              ELSE st
        room   == s1.audioBuffer.length - s1.offset
        stored == IF room <= 0 THEN 0
                  ELSE IF chunk.length <= room THEN chunk.length ELSE room
    IN  [ s1 EXCEPT
            !.audioBuffer.chunks =
                IF changed THEN @
                ELSE Append(@, [ call |-> call, at |-> s1.offset, stored |-> stored ]),
            !.offset = @ + chunk.length,
            !.timers = IF s1.timerID # 0 THEN clearTimeout(@, s1.timerID) ELSE @,
            !.sequenceDuration = @ + chunkDuration(chunk.length, s1.audioCtxRate) ]

\* the pre-roll test with <= for <
playWaitsInclusive(s2) ==
    /\ s2.sequenceStartedAt = 0
    /\ s2.sequenceDuration <= MIN_BUFFER_DURATION_BEFORE_START_MS

\* play(): the pre-roll test; TRUE when play returns without starting
playWaits(s2) ==
    /\ s2.sequenceStartedAt = 0
    /\ s2.sequenceDuration < MIN_BUFFER_DURATION_BEFORE_START_MS

\* play(): the start of the source, when the sequence has not started
playStart(s2, t) ==
    IF s2.sequenceStartedAt = 0
    THEN [ s2 EXCEPT !.sequenceStartedAt = t, !.source.starts = @ + 1 ]
    ELSE s2

\* play(): the timer armed at the end; a negative delay fires at once
playArm(s3, t) ==
    LET remaining == s3.sequenceDuration - (t - s3.sequenceStartedAt)
        id == s3.timerSeq + 1
    IN  [ s3 EXCEPT
            !.timeUntilAudioCompleted = remaining,
            !.timerSeq = id,
            !.timerID = id,
            !.timers = @ \cup { [ id |-> id,
                                  due |-> t + (IF remaining > 0 THEN remaining ELSE 0) ] } ]

\* play(chunk) at time t, the call-th of the run
play(st, chunk, call, t) ==
    LET s2 == playAppend(st, chunk, call)
    IN  IF playWaits(s2) THEN s2 ELSE playArm(playStart(s2, t), t)

\* interrupt()
interrupt(st) ==
    reset([ st EXCEPT !.timers = IF st.timerID # 0 THEN clearTimeout(@, st.timerID) ELSE @ ])

CommitPlayer(st) ==
    /\ audioCtxRate' = st.audioCtxRate
    /\ offset' = st.offset
    /\ sequenceDuration' = st.sequenceDuration
    /\ sequenceStartedAt' = st.sequenceStartedAt
    /\ timeUntilAudioCompleted' = st.timeUntilAudioCompleted
    /\ timerID' = st.timerID
    /\ audioBuffer' = st.audioBuffer
    /\ source' = st.source
    /\ lingering' = st.lingering
    /\ timers' = st.timers
    /\ timerSeq' = st.timerSeq

\* the record kept in playLast: the method, the play call and its chunk,
\* and the fields it found
Played(op, call, chunk) ==
    [ op |-> op, call |-> call, chunk |-> chunk,
      audioCtxRate |-> audioCtxRate, offset |-> offset,
      sequenceDuration |-> sequenceDuration,
      sequenceStartedAt |-> sequenceStartedAt,
      timers |-> timers, starts |-> source.starts ]

NoChunk == [ sampleRate |-> 0, length |-> 0 ]

\* the constructor
PlayerInit ==
    /\ now = 1
    /\ audioCtxRate = INITIAL_SAMPLE_RATE
    /\ offset = 0
    /\ sequenceDuration = 0
    /\ sequenceStartedAt = 0
    /\ timeUntilAudioCompleted = 0
    /\ timerID = 0
    /\ audioBuffer = createNewAudioBuffer(INITIAL_SAMPLE_RATE)
    /\ source = NewSource
    /\ lingering = 0
    /\ timers = { }
    /\ timerSeq = 0
    /\ playCount = 0
    /\ streamEnded = FALSE
    /\ interruptCount = 0
    /\ playLast = Played("init", 0, NoChunk)

Play ==
    /\ playCount < MaxPlays
    /\ ~ streamEnded
    /\ \E chunk \in PlayChunks :
         /\ CommitPlayer(play(PlayerState, chunk, playCount + 1, now))
         /\ playLast' = Played("play", playCount + 1, chunk)
    /\ playCount' = playCount + 1
    /\ UNCHANGED << now, streamEnded, interruptCount >>
    /\ UNCHANGED << connVars, msgVars, micVars, appVars >>

Interrupt ==
    /\ interruptCount < MaxInterrupts
    /\ CommitPlayer(interrupt(PlayerState))
    /\ playLast' = Played("interrupt", 0, NoChunk)
    /\ interruptCount' = interruptCount + 1
    /\ UNCHANGED << now, playCount, streamEnded >>
    /\ UNCHANGED << connVars, msgVars, micVars, appVars >>

\* the browser runs the callback of a timeout that is due: reset()
TimerFires ==
    /\ \E tm \in timers :
         /\ tm.due <= now
         /\ CommitPlayer(reset([ PlayerState EXCEPT !.timers = @ \ { tm } ]))
    /\ playLast' = Played("timer", 0, NoChunk)
    /\ UNCHANGED << now, playCount, streamEnded, interruptCount >>
    /\ UNCHANGED << connVars, msgVars, micVars, appVars >>

\* time passes: by one step of the clock while the run is young, or up to
\* the next timeout; never past a pending timeout, which fires when due
Tick ==
    /\ \E d \in { TickMs } \cup { tm.due - now : tm \in timers } :
         /\ d > 0
         /\ \A tm \in timers : now + d <= tm.due
         /\ d = TickMs => now + d <= MaxIdleNow
         /\ now' = now + d
    /\ playLast' = Played("tick", 0, NoChunk)
    /\ UNCHANGED << audioCtxRate, offset, sequenceDuration, sequenceStartedAt,
                    timeUntilAudioCompleted, timerID, audioBuffer, source,
                    lingering, timers, timerSeq, playCount, streamEnded,
                    interruptCount >>
    /\ UNCHANGED << connVars, msgVars, micVars, appVars >>

\* time passes while a timeout is due and its task has not run yet: the
\* browser runs the callback of a timeout no earlier than its delay, and
\* later when the main thread is busy or the page is throttled
TimerDelayed ==
    /\ \E tm \in timers :
         /\ tm.due <= now
         /\ now + TickMs <= tm.due + MaxLateMs
    /\ now' = now + TickMs
    /\ playLast' = Played("tick", 0, NoChunk)
    /\ UNCHANGED << audioCtxRate, offset, sequenceDuration, sequenceStartedAt,
                    timeUntilAudioCompleted, timerID, audioBuffer, source,
                    lingering, timers, timerSeq, playCount, streamEnded,
                    interruptCount >>
    /\ UNCHANGED << connVars, msgVars, micVars, appVars >>

\* the caller has passed the last chunk of the utterance to play()
EndOfStream ==
    /\ ~ streamEnded
    /\ streamEnded' = TRUE
    /\ playLast' = Played("end", 0, NoChunk)
    /\ UNCHANGED << now, audioCtxRate, offset, sequenceDuration, sequenceStartedAt,
                    timeUntilAudioCompleted, timerID, audioBuffer, source,
                    lingering, timers, timerSeq, playCount, interruptCount >>
    /\ UNCHANGED << connVars, msgVars, micVars, appVars >>

PlayerNext ==
    \/ Play
    \/ EndOfStream
    \/ Interrupt
    \/ TimerFires
    \/ Tick

\* The player in a browser whose timeouts may run late.
PlayerLateNext ==
    \/ Play
    \/ Interrupt
    \/ TimerFires
    \/ Tick
    \/ TimerDelayed

(***************************************************************************)
(* useMicrophone.  startRecording and stopRecording are called from the    *)
(* render that shows the reducer's current state, so the microphoneState   *)
(* they read is that state.  The browser settles the getUserMedia and      *)
(* addModule promises, each in a task of its own; the code after an await  *)
(* on a settled promise runs before any other task.                        *)
(***************************************************************************)
\* The reducer's state, the refs and the browser's objects, as the hook's
\* functions see them.
MicState ==
    [ access      |-> micAccessState,
      error       |-> micError,
      isRecording |-> isRecording,
      ctx         |-> micAudioCtx,
      sources     |-> sources,
      taps        |-> taps,
      gum         |-> gumCalls,
      requests    |-> requests,
      errorCalls  |-> micErrorCalls,
      trace       |-> accessTrace ]

\* reducer whose MIC_ACCESS_ERROR case returns to INITIAL
reducerErrorResets(st, type, payload) ==
    IF type = "MIC_ACCESS_REQUESTED" THEN [ st EXCEPT !.access = "LOADING" ]
    ELSE IF type = "MIC_ACCESS_GRANTED" THEN [ st EXCEPT !.access = "GRANTED" ]
    ELSE IF type = "MIC_ACCESS_ERROR"
    THEN [ st EXCEPT !.access = "INITIAL", !.error = payload ]
    ELSE IF type = "RECORDING_STARTED" THEN [ st EXCEPT !.isRecording = TRUE ]
    ELSE IF type = "RECORDING_STOPPED" THEN [ st EXCEPT !.isRecording = FALSE ]
    ELSE st

\* reducer(state, action)
reducer(st, type, payload) ==
    IF type = "MIC_ACCESS_REQUESTED" THEN [ st EXCEPT !.access = "LOADING" ]
    ELSE IF type = "MIC_ACCESS_GRANTED" THEN [ st EXCEPT !.access = "GRANTED" ]
    ELSE IF type = "MIC_ACCESS_ERROR"
    THEN [ st EXCEPT !.access = "ERROR", !.error = payload ]
    ELSE IF type = "RECORDING_STARTED" THEN [ st EXCEPT !.isRecording = TRUE ]
    ELSE IF type = "RECORDING_STOPPED" THEN [ st EXCEPT !.isRecording = FALSE ]
    ELSE st

\* dispatch(action); the trace keeps micAccessState after each of the
\* three actions that set it
dispatch(st, type, payload) ==
    LET s1 == reducer(st, type, payload)
    IN  IF type \in { "MIC_ACCESS_REQUESTED", "MIC_ACCESS_GRANTED", "MIC_ACCESS_ERROR" }
        THEN [ s1 EXCEPT !.trace = Append(@, s1.access) ]
        ELSE s1

\* the catch of requestAccess without the onError call
requestAccessCatchSilent(st, id, e) ==
    dispatch(st, "MIC_ACCESS_ERROR", e)

\* requestAccess(): its catch, for the request of startRecording call id
requestAccessCatch(st, id, e) ==
    dispatch([ st EXCEPT !.errorCalls = Append(@, [ req |-> id, error |-> e ]) ],
             "MIC_ACCESS_ERROR", e)

\* requestAccess without the test of isSecureContext
requestAccessAnyContext(st, id, secure) ==
    LET s1 == dispatch(st, "MIC_ACCESS_REQUESTED", "null")
    IN  [ s1 EXCEPT !.gum = @ + 1,
                    !.requests = @ \cup { [ id |-> id, stage |-> "getUserMedia" ] } ]

\* requestAccess() up to its first await: MIC_ACCESS_REQUESTED, the test
\* of isSecureContext and the getUserMedia call
requestAccess(st, id, secure) ==
    LET s1 == dispatch(st, "MIC_ACCESS_REQUESTED", "null")
    IN  IF ~ secure
        THEN requestAccessCatch(s1, id, "insecure context")
        ELSE [ s1 EXCEPT !.gum = @ + 1,
                         !.requests = @ \cup { [ id |-> id, stage |-> "getUserMedia" ] } ]

\* startRecording() after requestAccess, or at once when access is
\* granted: audioCtxRef.current?.resume() and RECORDING_STARTED
startRecordingResumed(st) ==
    dispatch([ st EXCEPT !.ctx = IF @ = "null" THEN @ ELSE "running" ],
             "RECORDING_STARTED", "null")

\* startRecording without the test of micAccessState
startRecordingAlwaysRequests(st, id, secure) ==
    LET s1 == requestAccess(st, id, secure)
    IN  IF \E rq \in s1.requests : rq.id = id
        THEN s1
        ELSE startRecordingResumed(s1)

\* startRecording(), the id-th call, up to the first await that suspends it
startRecording(st, id, secure) ==
    IF st.access # "GRANTED"
    THEN LET s1 == requestAccess(st, id, secure)
         IN  IF \E rq \in s1.requests : rq.id = id
             THEN s1
             ELSE startRecordingResumed(s1)
    ELSE startRecordingResumed(st)

\* requestAccess() resumed with the stream: the AudioContext made when
\* there is none, createMediaStreamSource, and the addModule call
getUserMediaResolved(st, rq) ==
    [ st EXCEPT !.ctx = IF @ = "null" THEN "running" ELSE @,
                !.sources = @ + 1,
                !.requests = ( @ \ { rq } )
                               \cup { [ id |-> rq.id, stage |-> "addModule" ] } ]

\* requestAccess() resumed with the module loaded: the AudioWorkletNode
\* connected between the source and the destination, MIC_ACCESS_GRANTED,
\* and the rest of startRecording
addModuleResolved(st, rq) ==
    startRecordingResumed(
        dispatch([ st EXCEPT !.taps = @ + 1, !.requests = @ \ { rq } ],
                 "MIC_ACCESS_GRANTED", "null"))

\* requestAccess() resumed with a rejection e: the catch, and the rest of
\* startRecording
requestAccessRejected(st, rq, e) ==
    startRecordingResumed(
        requestAccessCatch([ st EXCEPT !.requests = @ \ { rq } ], rq.id, e))

\* stopRecording()
stopRecording(st) ==
    dispatch([ st EXCEPT !.ctx = IF @ = "null" THEN @ ELSE "suspended" ],
             "RECORDING_STOPPED", "null")

CommitMic(st) ==
    /\ micAccessState' = st.access
    /\ micError' = st.error
    /\ isRecording' = st.isRecording
    /\ micAudioCtx' = st.ctx
    /\ sources' = st.sources
    /\ taps' = st.taps
    /\ gumCalls' = st.gum
    /\ requests' = st.requests
    /\ micErrorCalls' = st.errorCalls
    /\ accessTrace' = st.trace

\* the record kept in micLast: the step, the startRecording call it
\* belongs to, the failure it handled ("none" when it handled none), and
\* what it found
Did(op, id, failed) ==
    [ op |-> op, req |-> id, failed |-> failed,
      access |-> micAccessState, isRecording |-> isRecording,
      ctx |-> micAudioCtx, sources |-> sources, taps |-> taps,
      gumCalls |-> gumCalls, requests |-> requests,
      errorCalls |-> Len(micErrorCalls) ]

\* the record kept in micCall: the last call of the page and the requests
\* that were pending when it was made
Called(op) == [ op |-> op, pending |-> requests ]

\* INITIAL_STATE and the refs
MicInit ==
    /\ micAccessState = "INITIAL"
    /\ micError = "null"
    /\ isRecording = FALSE
    /\ micAudioCtx = "null"
    /\ sources = 0
    /\ taps = 0
    /\ gumCalls = 0
    /\ requests = { }
    /\ secureContext = "unread"
    /\ startCalls = 0
    /\ stopCalls = 0
    /\ micErrorCalls = << >>
    /\ accessTrace = << "INITIAL" >>
    /\ micLast = Did("init", 0, "none")
    /\ micCall = Called("none")

StartRecording ==
    /\ startCalls < MaxStarts
    /\ \E sc \in IF micAccessState = "GRANTED" \/ secureContext # "unread"
                  THEN { secureContext }
                  ELSE { "secure", "insecure" } :
         /\ CommitMic(startRecording(MicState, startCalls + 1, sc = "secure"))
         /\ secureContext' = sc
         /\ micLast' = Did("start", startCalls + 1,
                           IF micAccessState # "GRANTED" /\ sc = "insecure"
                           THEN "insecure context" ELSE "none")
    /\ startCalls' = startCalls + 1
    /\ micCall' = Called("start")
    /\ UNCHANGED stopCalls
    /\ UNCHANGED << connVars, playerVars, msgVars, appVars >>

StopRecording ==
    /\ stopCalls < MaxStops
    /\ CommitMic(stopRecording(MicState))
    /\ micLast' = Did("stop", 0, "none")
    /\ stopCalls' = stopCalls + 1
    /\ micCall' = Called("stop")
    /\ UNCHANGED << secureContext, startCalls >>
    /\ UNCHANGED << connVars, playerVars, msgVars, appVars >>

\* the getUserMedia promise of a request settles: the user grants the
\* permission, or denies it
GetUserMediaSettles ==
    /\ \E rq \in requests :
         /\ rq.stage = "getUserMedia"
         /\ \/ /\ CommitMic(getUserMediaResolved(MicState, rq))
               /\ micLast' = Did("getUserMedia", rq.id, "none")
            \/ /\ CommitMic(requestAccessRejected(MicState, rq, "permission denied"))
               /\ micLast' = Did("getUserMedia", rq.id, "permission denied")
    /\ UNCHANGED << secureContext, startCalls, stopCalls, micCall >>
    /\ UNCHANGED << connVars, playerVars, msgVars, appVars >>

\* the addModule promise of a request settles: the worklet module is
\* loaded, or cannot be
AddModuleSettles ==
    /\ \E rq \in requests :
         /\ rq.stage = "addModule"
         /\ \/ /\ CommitMic(addModuleResolved(MicState, rq))
               /\ micLast' = Did("addModule", rq.id, "none")
            \/ /\ CommitMic(requestAccessRejected(MicState, rq, "graph construction"))
               /\ micLast' = Did("addModule", rq.id, "graph construction")
    /\ UNCHANGED << secureContext, startCalls, stopCalls, micCall >>
    /\ UNCHANGED << connVars, playerVars, msgVars, appVars >>

MicNext ==
    \/ StartRecording
    \/ StopRecording
    \/ GetUserMediaSettles
    \/ AddModuleSettles

(***************************************************************************)
(* The uplink: App gives aceController.sendAudioChunk to useMicrophone as  *)
(* onAudioChunkAvailable, and each worklet node posts its chunks to the    *)
(* port.onmessage handler set by requestAccess.                            *)
(***************************************************************************)
USER_SPEECH_SAMPLE_RATE == 16000

\* the Int16Array posted as the call-th chunk: two samples, as bytes
CapturedChunk(call) == << call, 0, call + 1, 0 >>

\* the handler posting the rate of the capture hardware
onWorkletMessageNativeRate(st, call, data) ==
    sendAudioChunk(st, call, data, 48000, 1)

\* audioWorkletNode.port.onmessage: onAudioChunkAvailable(e.data.buffer,
\* audioCtxRef.current.sampleRate, 1), which is sendAudioChunk; the
\* context was made at USER_SPEECH_SAMPLE_RATE
onWorkletMessage(st, call, data) ==
    sendAudioChunk(st, call, data, USER_SPEECH_SAMPLE_RATE, 1)

UplinkInit == captured = << >>

\* a connected worklet node posts a chunk; the nodes process audio while
\* the AudioContext is running
ChunkCaptured ==
    /\ sendCount < MaxSends
    /\ taps > 0
    /\ micAudioCtx = "running"
    /\ LET call == sendCount + 1
       IN  /\ channels' = onWorkletMessage(ConnState, call, CapturedChunk(call))
           /\ captured' = Append(captured, [ call |-> call,
                                             bytes |-> CapturedChunk(call) ])
           /\ sendCount' = call
           /\ warned' = IF sendWarns(ConnState) THEN warned \cup { call } ELSE warned
           /\ lastSend' = [ call         |-> call,
                            status       |-> connectionStatus,
                            chan         |-> websocketRef,
                            readyState   |-> IF websocketRef = 0 THEN "none"
                                             ELSE channels[websocketRef].readyState,
                            framesBefore |-> FramesWritten(channels, Len(channels)),
                            chunk        |-> CapturedChunk(call),
                            sampleRate   |-> USER_SPEECH_SAMPLE_RATE,
                            numChannels  |-> 1 ]
    /\ connLast' = Ran("send", websocketRef)
    /\ UNCHANGED << connectionStatus, websocketRef, unloadRegistered >>
    /\ UNCHANGED << playerVars, msgVars, micVars, codecVars, chatVars, urlVars,
                    entryVars >>

UplinkNext ==
    \/ Connect
    \/ \E c \in Created : OpenEvent(c)
    \/ \E c \in Created : ErrorEvent(c)
    \/ StartRecording
    \/ GetUserMediaSettles
    \/ AddModuleSettles
    \/ ChunkCaptured

(***************************************************************************)
(* The codec on its own: pcmToWav and extractWavSampleRate applied to      *)
(* inputs fixed at the start.                                              *)
(***************************************************************************)
NotRun == [ thrown |-> "not run", value |-> 0 ]

\* no codec call is under way
CodecIdle ==
    /\ wavIn = [ pcm |-> << >>, sampleRate |-> 0, numChannels |-> 0 ]
    /\ wavOut = << >>
    /\ wavRate = NotRun
    /\ peekIn = << >>
    /\ peekOut = NotRun

CodecInit ==
    /\ wavIn \in EncodeInputs
    /\ wavOut = << >>
    /\ wavRate = NotRun
    /\ peekIn \in PeekInputs
    /\ peekOut = NotRun

\* pcmToWav(pcm, sampleRate, numChannels)
Encode ==
    /\ wavOut = << >>
    /\ wavOut' = pcmToWav(wavIn.pcm, wavIn.sampleRate, wavIn.numChannels)
    /\ UNCHANGED << wavIn, wavRate, peekIn, peekOut >>
    /\ UNCHANGED << connVars, playerVars, msgVars, micVars, captured, chatVars, urlVars,
                    entryVars >>

\* extractWavSampleRate on the container pcmToWav returned
DecodeEncoded ==
    /\ wavOut # << >>
    /\ wavRate = NotRun
    /\ wavRate' = extractWavSampleRate(wavOut)
    /\ UNCHANGED << wavIn, wavOut, peekIn, peekOut >>
    /\ UNCHANGED << connVars, playerVars, msgVars, micVars, captured, chatVars, urlVars,
                    entryVars >>

\* extractWavSampleRate on bytes of any origin
PeekHeader ==
    /\ peekOut = NotRun
    /\ peekOut' = extractWavSampleRate(peekIn)
    /\ UNCHANGED << wavIn, wavOut, wavRate, peekIn >>
    /\ UNCHANGED << connVars, playerVars, msgVars, micVars, captured, chatVars, urlVars,
                    entryVars >>

CodecNext ==
    \/ Encode
    \/ DecodeEncoded
    \/ PeekHeader

(***************************************************************************)
(* useACEControllerURL.  A URL is the sequence of its characters; null     *)
(* and the empty string, which the hook's tests of truth do not tell       *)
(* apart, are both the empty sequence.                                     *)
(***************************************************************************)
\* "ws://localhost:8100/ws/"
DEFAULT_WEBSOCKET_BASE_URL ==
    << "w", "s", ":", "/", "/", "l", "o", "c", "a", "l", "h", "o", "s", "t",
       ":", "8", "1", "0", "0", "/", "w", "s", "/" >>

Letters == { "a", "c", "e", "h", "l", "o", "p", "s", "t", "w", "x", "S", "W" }

Digits == { "0", "1", "8" }

\* ASCII lowercase of a character
Lower(ch) == IF ch = "W" THEN "w" ELSE IF ch = "S" THEN "s" ELSE ch

\* the position of the first ch in s, 0 when there is none
IndexOf(s, ch) ==
    IF \E i \in 1 .. Len(s) : s[i] = ch
    THEN CHOOSE i \in 1 .. Len(s) :
             s[i] = ch /\ \A j \in 1 .. ( i - 1 ) : s[j] # ch
    ELSE 0

\* the URL parser's scheme states: a letter, then letters and digits, then ":"
HasScheme(u) ==
    LET k == IndexOf(u, ":")
    IN  /\ k > 1
        /\ u[1] \in Letters
        /\ \A i \in 2 .. ( k - 1 ) : u[i] \in Letters \cup Digits

\* the scheme, lowercased, without its colon
SchemeOf(u) == [ i \in 1 .. ( IndexOf(u, ":") - 1 ) |-> Lower(u[i]) ]

\* the schemes the URL parser calls special, among those of the alphabet
SpecialSchemes == { << "w", "s" >>, << "w", "s", "s" >>, << "h", "t", "t", "p" >> }

\* s without its leading slashes
SkipSlashes(s) ==
    LET n == Cardinality({ i \in 1 .. Len(s) :
                             \A j \in 1 .. i : s[j] = "/" })
    IN  SubSeq(s, n + 1, Len(s))

\* the authority of a special URL: what follows the scheme and the slashes,
\* up to the path
AuthorityOf(u) ==
    LET rest == SkipSlashes(SubSeq(u, IndexOf(u, ":") + 1, Len(u)))
        k == IndexOf(rest, "/")
    IN  IF k = 0 THEN rest ELSE SubSeq(rest, 1, k - 1)

\* host and port states: the host is not empty, the port is decimal
\* (the ports of the alphabet stay below 65536)
ValidAuthority(a) ==
    LET k == IndexOf(a, ":")
        host == IF k = 0 THEN a ELSE SubSeq(a, 1, k - 1)
        port == IF k = 0 THEN << >> ELSE SubSeq(a, k + 1, Len(a))
    IN  /\ host # << >>
        /\ \A i \in 1 .. Len(port) : port[i] \in Digits

\* new URL(STREAM_ID, url): url is parsed as the base, and the relative
\* STREAM_ID is resolved against it.  A base without a scheme, a special
\* base without a host and a base with an opaque path make it throw.
NewURL(url) ==
    IF ~ HasScheme(url)
    THEN [ thrown |-> TRUE, protocol |-> << >> ]
    ELSE IF SchemeOf(url) \in SpecialSchemes
    THEN [ thrown   |-> ~ ValidAuthority(AuthorityOf(url)),
           protocol |-> SchemeOf(url) \o << ":" >> ]
    ELSE [ thrown   |-> ~ ( IndexOf(url, ":") < Len(url)
                            /\ url[IndexOf(url, ":") + 1] = "/" ),
           protocol |-> SchemeOf(url) \o << ":" >> ]

\* isValidWebsocketURL(url)
isValidWebsocketURL(url) ==
    LET parsedUrl == NewURL(url)
    IN  IF parsedUrl.thrown
        THEN FALSE
        ELSE parsedUrl.protocol \in { << "w", "s", ":" >>,
                                      << "w", "s", "s", ":" >> }

\* window.location.search without the parameter
Absent == [ present |-> FALSE, value |-> << >> ]

\* window.location.search with ace-controller-url=value
Query(value) == [ present |-> TRUE, value |-> value ]

\* new URLSearchParams(window.location.search).get("ace-controller-url");
\* null when the parameter is absent
SearchParamsGet(search) == IF search.present THEN search.value ELSE << >>

\* The query strings of the page: "ws://h/", "wss://h/", "WS://h/",
\* "ws://h:8/", "ws:h", "http://h/", "x://h/", "x:h", "ws://", "ws://:8/",
\* "h/", the empty value, and no parameter.
UrlParams ==
    { Query(<< "w", "s", ":", "/", "/", "h", "/" >>),
      Query(<< "w", "s", "s", ":", "/", "/", "h", "/" >>),
      Query(<< "W", "S", ":", "/", "/", "h", "/" >>),
      Query(<< "w", "s", ":", "/", "/", "h", ":", "8", "/" >>),
      Query(<< "w", "s", ":", "h" >>),
      Query(<< "h", "t", "t", "p", ":", "/", "/", "h", "/" >>),
      Query(<< "x", ":", "/", "/", "h", "/" >>),
      Query(<< "x", ":", "h" >>),
      Query(<< "w", "s", ":", "/", "/" >>),
      Query(<< "w", "s", ":", "/", "/", ":", "8", "/" >>),
      Query(<< "h", "/" >>),
      Query(<< >>),
      Absent }

\* What the hook reads and writes: urlRef.current and onError's history.
UrlState == [ urlRef |-> urlRef, errors |-> urlErrors ]

\* useACEControllerURL({ onError }) in a render that finds search
useACEControllerURL(st, search) ==
    IF st.urlRef # << >>
    THEN st
    ELSE LET websocketBaseUrl == SearchParamsGet(search)
         IN  IF websocketBaseUrl # << >>
             THEN IF isValidWebsocketURL(websocketBaseUrl)
                  THEN [ st EXCEPT !.urlRef = websocketBaseUrl ]
                  ELSE [ st EXCEPT
                           !.errors = Append(@, [ message |-> "Invalid websocket URL",
                                                  url     |-> websocketBaseUrl ]),
                           !.urlRef = DEFAULT_WEBSOCKET_BASE_URL ]
             ELSE [ st EXCEPT !.urlRef = DEFAULT_WEBSOCKET_BASE_URL ]

\* the record kept in urlLast: the step and urlRef.current before it
Rendered(op) == [ op |-> op, before |-> urlRef ]

UrlInit ==
    /\ locationParam = Absent
    /\ urlRef = << >>
    /\ urlErrors = << >>
    /\ renderCount = 0
    /\ urlFirst = Absent
    /\ urlLast = Rendered("init")

\* window.location.search is set to another query string
LocationChanges(search) ==
    /\ search # locationParam
    /\ locationParam' = search
    /\ urlLast' = Rendered("location")
    /\ UNCHANGED << urlRef, urlErrors, renderCount, urlFirst >>
    /\ UNCHANGED << connVars, playerVars, msgVars, micVars, captured, codecVars,
                    chatVars, entryVars >>

\* the component renders and the hook runs
Render ==
    /\ renderCount < MaxRenders
    /\ renderCount' = renderCount + 1
    /\ LET st == useACEControllerURL(UrlState, locationParam)
       IN  /\ urlRef' = st.urlRef
           /\ urlErrors' = st.errors
    /\ urlFirst' = IF renderCount = 0 THEN locationParam ELSE urlFirst
    /\ urlLast' = Rendered("render")
    /\ UNCHANGED locationParam
    /\ UNCHANGED << connVars, playerVars, msgVars, micVars, captured, codecVars,
                    chatVars, entryVars >>

UrlNext ==
    \/ \E search \in UrlParams : LocationChanges(search)
    \/ Render

(***************************************************************************)
(* The container's entrypoint script.  A child is "absent" before it is    *)
(* started, then "running", "exited" once it has ended by itself and       *)
(* "killed" once the script has sent it TERM.                              *)
(***************************************************************************)
MAX_ATTEMPTS == 30

\* cleanup(): kill every child that kill -0 finds alive
cleanup(ch) ==
    [ p \in DOMAIN ch |-> IF ch[p] = "running" THEN "killed" ELSE ch[p] ]

\* exit status: the EXIT trap, when it is set, runs cleanup
Exit(status) ==
    /\ scriptPc' = "exited"
    /\ exitStatus' = status
    /\ exitFrom' = scriptPc
    /\ children' = IF trapSet THEN cleanup(children) ELSE children

EntryInit ==
    /\ scriptPc = "start"
    /\ attempts = 0
    /\ trapSet = FALSE
    /\ exitStatus = -1
    /\ exitFrom = "none"
    /\ children = [ pipeline |-> "absent", langgraph |-> "absent" ]
    /\ ready = FALSE
    /\ signals = 0

\* lines 36-49: langgraph dev is started when the agents directory
\* exists, then the pipeline
StartChildren ==
    /\ scriptPc = "start"
    /\ \E agentsDir \in BOOLEAN :
         children' = [ pipeline  |-> "running",
                       langgraph |-> IF agentsDir THEN "running" ELSE "absent" ]
    /\ scriptPc' = "readiness"
    /\ UNCHANGED << attempts, trapSet, exitStatus, exitFrom, ready, signals >>
    /\ UNCHANGED webVars

\* lines 54-72: one probe of the readiness loop.  When curl succeeds the
\* loop ends and the trap is set; when it fails ATTEMPTS is incremented
\* and, at MAX_ATTEMPTS, the script waits for the pipeline to end;
\* otherwise it sleeps and probes again.
ReadinessProbe ==
    /\ scriptPc = "readiness"
    /\ IF ready /\ children.pipeline = "running"
       THEN /\ scriptPc' = "monitor"
            /\ trapSet' = TRUE
            /\ UNCHANGED attempts
       ELSE /\ attempts' = attempts + 1
            /\ scriptPc' = IF attempts + 1 >= MAX_ATTEMPTS THEN "waiting"
                           ELSE "readiness"
            /\ UNCHANGED trapSet
    /\ UNCHANGED << exitStatus, exitFrom, children, ready, signals >>
    /\ UNCHANGED webVars

\* lines 58-59: wait "$PIPELINE_PID" returns once the pipeline has ended,
\* and the script exits with status 1
WaitReturns ==
    /\ scriptPc = "waiting"
    /\ children.pipeline # "running"
    /\ Exit(1)
    /\ UNCHANGED << attempts, trapSet, ready, signals >>
    /\ UNCHANGED webVars

\* lines 75-84: a pass of the monitor loop that finds a child gone: wait,
\* then exit 1.  A pass that finds every child alive changes nothing.
MonitorPass ==
    /\ scriptPc = "monitor"
    /\ \E p \in DOMAIN children : children[p] \in { "exited", "killed" }
    /\ Exit(1)
    /\ UNCHANGED << attempts, trapSet, ready, signals >>
    /\ UNCHANGED webVars

\* INT or TERM is sent to the script.  With the trap set, cleanup runs and
\* the script goes on; without it the shell is terminated by the signal.
Signal(number) ==
    /\ signals < MaxSignals
    /\ scriptPc \in { "readiness", "waiting", "monitor" }
    /\ signals' = signals + 1
    /\ IF trapSet
       THEN /\ children' = cleanup(children)
            /\ UNCHANGED << scriptPc, exitStatus, exitFrom >>
       ELSE Exit(128 + number)
    /\ UNCHANGED << attempts, trapSet, ready >>
    /\ UNCHANGED webVars

\* the pipeline starts to answer on its HTTP endpoint
PipelineReady ==
    /\ scriptPc \in { "readiness", "waiting", "monitor" }
    /\ children.pipeline = "running"
    /\ ~ ready
    /\ ready' = TRUE
    /\ UNCHANGED << scriptPc, attempts, trapSet, exitStatus, exitFrom, children,
                    signals >>
    /\ UNCHANGED webVars

\* a child ends by itself
ChildExits(p) ==
    /\ scriptPc \in { "readiness", "waiting", "monitor" }
    /\ children[p] = "running"
    /\ children' = [ children EXCEPT ![p] = "exited" ]
    /\ UNCHANGED << scriptPc, attempts, trapSet, exitStatus, exitFrom, ready,
                    signals >>
    /\ UNCHANGED webVars

EntryNext ==
    \/ StartChildren
    \/ ReadinessProbe
    \/ WaitReturns
    \/ MonitorPass
    \/ \E number \in { 2, 15 } : Signal(number)
    \/ PipelineReady
    \/ \E p \in { "pipeline", "langgraph" } : ChildExits(p)

Init ==
    /\ ConnInit /\ PlayerInit /\ MsgInit /\ MicInit /\ UplinkInit /\ CodecIdle
    /\ ChatInit /\ UrlInit /\ EntryInit

InitCodec ==
    /\ ConnInit /\ PlayerInit /\ MsgInit /\ MicInit /\ UplinkInit /\ CodecInit
    /\ ChatInit /\ UrlInit /\ EntryInit

SpecPlayerLate == Init /\ [][PlayerLateNext]_vars

SpecReconnect == Init /\ [][ReconnectNext]_vars

SpecEntry == Init /\ [][EntryNext]_vars

SpecChat == Init /\ [][ChatNext]_vars

SpecUrl == Init /\ [][UrlNext]_vars

SpecConn == Init /\ [][ConnNext]_vars

SpecMsg == Init /\ [][MsgNext]_vars

SpecMic == Init /\ [][MicNext]_vars

SpecUplink == Init /\ [][UplinkNext]_vars

SpecCodec == InitCodec /\ [][CodecNext]_vars

SpecPlayer == Init /\ [][PlayerNext]_vars

\* The browser fires a timeout that is due, and time passes.
SpecPlayerFair ==
    Init /\ [][PlayerNext]_vars /\ WF_vars(TimerFires) /\ WF_vars(Tick)

(***************************************************************************)
(* Properties of the AudioPlayer.                                          *)
(***************************************************************************)
\* the scheduler is in its reset state
IsReset == offset = 0 /\ sequenceDuration = 0 /\ sequenceStartedAt = 0

C7_EventuallyResets == (streamEnded /\ offset > 0) ~> IsReset

\* C8: after every play() call exactly one timer is pending, armed by that
\* call, and none of the timers pending before it; after interrupt() no
\* timer is pending.
C8_TimerRearmed ==
    /\ playLast.op = "play"
          => /\ timers = { tm \in timers : tm.id = timerID }
             /\ Cardinality(timers) = 1
             /\ timers \cap playLast.timers = { }
    /\ playLast.op = "interrupt" => timers = { }

\* C9: the write offset never exceeds the length of the buffer.
C9_OffsetWithinCapacity == offset <= audioBuffer.length

\* C10: after a play() call whose chunk has another sample rate than the
\* output graph had, the graph and the buffer are at the chunk's rate, the
\* offset is the chunk's sample count and the sequence duration the
\* chunk's duration, no timer armed before the call is pending, and the
\* source node is a new one, started only if this chunk alone reaches
\* 0.8 s.
C10_ResetOnRateChange ==
    ( playLast.op = "play" /\ playLast.chunk.sampleRate # playLast.audioCtxRate )
        => /\ audioCtxRate = playLast.chunk.sampleRate
           /\ audioBuffer.sampleRate = playLast.chunk.sampleRate
           /\ audioBuffer.length = playLast.chunk.sampleRate * AUDIO_BUFFER_LENGTH_SEC
           /\ offset = playLast.chunk.length
           /\ sequenceDuration
                 = chunkDuration(playLast.chunk.length, playLast.chunk.sampleRate)
           /\ timers \cap playLast.timers = { }
           /\ source.starts
                 = IF sequenceDuration < MIN_BUFFER_DURATION_BEFORE_START_MS
                   THEN 0 ELSE 1
           /\ sequenceStartedAt = IF source.starts = 1 THEN now ELSE 0

\* C10 witness: the rate changed while a sequence was playing, with
\* samples buffered and its timer pending.
C10_Witness ==
    /\ playLast.op = "play"
    /\ playLast.chunk.sampleRate # playLast.audioCtxRate
    /\ playLast.offset > 0
    /\ playLast.sequenceStartedAt # 0
    /\ playLast.timers # { }

\* C17: after interrupt(), in whatever state it was called, the offset and
\* the sequence duration are 0, the sequence start is unset, no timeout is
\* pending in the browser (so none armed before the call can fire after
\* it), and the buffer and the source node are new ones: the buffer holds
\* none of the samples written before and the node has not been started.
C17_InterruptResets ==
    playLast.op = "interrupt"
        => /\ IsReset
           /\ timeUntilAudioCompleted = 0
           /\ timerID = 0
           /\ timers = { }
           /\ audioBuffer = createNewAudioBuffer(audioCtxRate)
           /\ source.starts = 0

\* C17 witness: interrupt() was called on a playing sequence, with samples
\* buffered, the source node started and its timer pending.
C17_Witness ==
    /\ playLast.op = "interrupt"
    /\ playLast.offset > 0
    /\ playLast.starts = 1
    /\ playLast.timers # { }
    /\ IsReset

\* C28: after every play() call the chunk's samples are in the buffer the
\* current source node plays, at the offset found by the call (0 when the
\* call rebuilt the buffer for a new sample rate), all of them.
C28_ChunkInCurrentBuffer ==
    playLast.op = "play"
        => /\ Len(audioBuffer.chunks) > 0
           /\ audioBuffer.chunks[Len(audioBuffer.chunks)]
                 = [ call   |-> playLast.call,
                     at     |-> IF playLast.chunk.sampleRate # playLast.audioCtxRate
                                THEN 0 ELSE playLast.offset,
                     stored |-> playLast.chunk.length ]

(***************************************************************************)
(* Properties of the connection manager.                                   *)
(***************************************************************************)
AllFrames == FramesWritten(channels, Len(channels))

\* the messages the close handler of channel c gave to params.onError
CloseReports(c) ==
    SelectSeq(channels[c].errorsShown,
              LAMBDA m : m = "Websocket closed unexpectedly")

\* C1: a close that was not clean is surfaced through the error callback
\* (once, by the close handler), and a clean close invokes the error
\* callback not at all.
C1_CloseReporting ==
    \A c \in Created :
        /\ channels[c].closeFired = "unclean" => Len(CloseReports(c)) = 1
        /\ channels[c].closeFired = "clean" => channels[c].errorsShown = << >>

\* C2: an error event that arrives in Connecting or Connected leaves the
\* status Disconnected and the ref null, with the socket that was active
\* closing or closed, and the error callback has run exactly once for that
\* channel, also after the close event that follows the error.
C2_ErrorOnce ==
    /\ \A c \in Created :
           channels[c].errorIn \in { "connecting", "connected" }
               => Len(channels[c].errorsShown) = 1
    /\ ( connLast.op = "error" /\ connLast.status \in { "connecting", "connected" } )
           => /\ connectionStatus = "disconnected"
              /\ websocketRef = 0
              /\ channels[connLast.chan].readyState = "CLOSED"
              /\ connLast.ref # 0
                   => channels[connLast.ref].readyState \in { "CLOSING", "CLOSED" }

\* C2 witness: the error event arrived in Connected and the close event
\* that follows it has been handled.
C2_Witness ==
    /\ connLast.op = "close"
    /\ channels[connLast.chan].errorIn = "connected"
    /\ channels[connLast.chan].closeFired = "unclean"

C3_StateOk ==
    /\ ( connLast.op = "connect" /\ connLast.chan = 1 )
           => connLast.status = "disconnected" /\ connectionStatus = "connecting"
    /\ connLast.op = "connect" => connectionStatus = "connecting"
    /\ connLast.op = "open" => connectionStatus = "connected"

C3_OnlyByOpen ==
    ( connectionStatus # "connected" /\ connectionStatus' = "connected" )
        => connLast'.op = "open"

\* C3: the first connect() moves the status from Disconnected to
\* Connecting, the delivery of an open event makes it Connected, and no
\* other step makes it Connected.
C3_ConnectThenOpen == [] C3_StateOk /\ [][C3_OnlyByOpen]_vars

\* C3 witness: the first channel's open event arrived in Connecting.
C3_Witness ==
    /\ connLast.op = "open"
    /\ connLast.chan = 1
    /\ connLast.status = "connecting"
    /\ connectionStatus = "connected"

\* C4: a sendAudioChunk call made while the status is not Connected writes
\* no frame and logs the warning, and no frame of a call that logged the
\* warning is on any channel at any later time.
C4_DroppedWhenNotConnected ==
    /\ ( connLast.op = "send" /\ lastSend.status # "connected" )
           => /\ AllFrames = lastSend.framesBefore
              /\ lastSend.call \in warned
    /\ \A c \in Created : \A i \in 1 .. Len(channels[c].frames) :
           channels[c].frames[i].call \notin warned

\* C4 witness: the first call was dropped in Connecting, and a later call
\* has written its frame.
C4_Witness ==
    /\ 1 \in warned
    /\ connLast.op = "send"
    /\ lastSend.call = 2
    /\ AllFrames = 1

\* what a call that sends leaves behind: one more frame, the last of the
\* current channel, holding the container of the call's arguments
SentOneFrame ==
    /\ AllFrames = lastSend.framesBefore + 1
    /\ lastSend.chan # 0
    /\ Len(channels[lastSend.chan].frames) > 0
    /\ LET f == channels[lastSend.chan].frames[Len(channels[lastSend.chan].frames)]
       IN  /\ f.call = lastSend.call
           /\ f.bytes = pcmToWav(lastSend.chunk, lastSend.sampleRate,
                                 lastSend.numChannels)
           /\ Len(f.bytes) = HeaderSize + Len(lastSend.chunk)

\* C5 as stated: every sendAudioChunk call made in status Connected writes
\* exactly one frame, the container of its arguments.
C5_SendsWhenConnected ==
    ( connLast.op = "send" /\ lastSend.status = "connected" ) => SentOneFrame

\* C5 amended: every sendAudioChunk call made while the manager's current
\* socket is open (readyState OPEN) writes exactly one frame, the container
\* of its arguments.
C5_SendsWhenOpen ==
    ( connLast.op = "send" /\ lastSend.readyState = "OPEN" ) => SentOneFrame

\* C5 witness: a stereo chunk was sent on an open socket after an earlier
\* socket had been closed and a second connect() had succeeded.
C5_Witness ==
    /\ connLast.op = "send"
    /\ lastSend.readyState = "OPEN"
    /\ lastSend.chan = 2
    /\ lastSend.numChannels = 2
    /\ channels[1].closeFired # "no"

\* C12: connect() called while websocketRef.current holds a socket creates
\* no socket, assigns no handler and leaves the status and the ref as they
\* were.
C12_ConnectNoop ==
    [][ ( websocketRef # 0 /\ connLast'.op \in { "connect", "connect-noop" } )
            => UNCHANGED << connectionStatus, websocketRef, channels,
                            unloadRegistered >> ]_vars

\* C12 witness: connect() was called in status Connected.
C12_Witness ==
    /\ connLast.op = "connect-noop"
    /\ connLast.status = "connected"
    /\ connectionStatus = "connected"
    /\ websocketRef = connLast.ref

\* connect(), called now, would create a socket, make it the current one
\* and set the status to Connecting
C13_ConnectOpens ==
    LET st == connect(ConnState)
    IN  /\ Len(st.chs) = Len(channels) + 1
        /\ st.ref = Len(st.chs)
        /\ st.chs[st.ref].readyState = "CONNECTING"
        /\ st.status = "connecting"

\* C13 as stated: after the close handler, the error handler or the unload
\* handler has run, connect() opens a new channel, and the open event of a
\* channel makes the status Connected.
C13_ReconnectAfterTeardown ==
    /\ connLast.op \in { "error", "close", "unload" } => C13_ConnectOpens
    /\ connLast.op = "open" => connectionStatus = "connected"

\* C13 amended: after the close handler or the error handler has run,
\* connect() opens a new channel, and the open event of a channel makes the
\* status Connected; after the unload handler has closed a socket,
\* connect() changes nothing until that socket's close event has been
\* handled.
C13_ReconnectAfterEvent ==
    /\ connLast.op \in { "error", "close" } => C13_ConnectOpens
    /\ connLast.op = "open" => connectionStatus = "connected"
    /\ ( connLast.op = "unload" /\ connLast.ref # 0 )
           => connect(ConnState) = ConnState

\* C13 witness: the first channel was torn down by an error event, a second
\* connect() created the second channel, and its open event has arrived.
C13_Witness ==
    /\ Len(channels) = 2
    /\ channels[1].errorFired
    /\ connLast.op = "open"
    /\ connLast.chan = 2
    /\ connectionStatus = "connected"

\* C29: an open, close or error event of a channel that is not the
\* current one, while another channel is, leaves the status, the ref and
\* the current socket's readyState as they were.
C29_StaleEventIgnored ==
    ( /\ connLast.op \in { "open", "close", "error" }
      /\ connLast.ref # 0
      /\ connLast.chan # connLast.ref )
        => /\ connectionStatus = connLast.status
           /\ websocketRef = connLast.ref
           /\ channels[connLast.ref].readyState = connLast.readyState

(***************************************************************************)
(* Properties of the inbound messages.                                     *)
(***************************************************************************)
\* the binary message e cannot be forwarded: its header peek throws, or
\* the context for its rate cannot be made, or its decode is rejected
FailingFrame(e) ==
    /\ e.kind = "binary"
    /\ \/ extractWavSampleRate(e.bytes).thrown # "none"
       \/ ~ SupportedRate(extractWavSampleRate(e.bytes).value)
       \/ ~ e.decodable

\* the indices of the params.onAudioChunk calls made for message m
ChunkCallsFor(m) == { k \in DOMAIN audioChunks : audioChunks[k].msg = m }

\* C11: the audio chunks are given to params.onAudioChunk in the order in
\* which their messages arrived.
C11_ArrivalOrder ==
    \A i, j \in DOMAIN audioChunks :
        i < j => audioChunks[i].msg < audioChunks[j].msg

\* C14: params.onAudioChunk is never called for a binary message whose
\* header peek or decode fails; the step that drops such a message calls
\* neither params.onAudioChunk nor params.onError and leaves the status as
\* it was; and every binary message that can be decoded, arrived before or
\* after a dropped one, is forwarded once its decode has settled.
C14_FailingFrameDropped ==
    /\ \A k \in DOMAIN audioChunks : ~ FailingFrame(inbox[audioChunks[k].msg])
    /\ ( rxLast.op \in { "message", "decoded" } /\ FailingFrame(inbox[rxLast.msg]) )
           => /\ audioChunks = rxLast.audioChunks
              /\ rxErrorCalls = rxLast.errorCalls
              /\ connectionStatus = rxLast.status
    /\ \A m \in DOMAIN inbox :
           ( /\ inbox[m].kind = "binary"
             /\ ~ FailingFrame(inbox[m])
             /\ \A d \in decoding : d.msg # m )
               => Cardinality(ChunkCallsFor(m)) = 1

\* C14 witness: the first message failed its header peek, the second was
\* rejected by the decoder, and the third has been decoded and forwarded.
C14_Witness ==
    /\ Len(inbox) = 3
    /\ extractWavSampleRate(inbox[1].bytes).thrown # "none"
    /\ inbox[1].kind = "binary"
    /\ extractWavSampleRate(inbox[2].bytes).thrown = "none"
    /\ ~ inbox[2].decodable
    /\ 2 \in rxWarned
    /\ audioChunks = << [ msg |-> 3, sampleRate |-> 16000 ] >>

\* C15: the step that handles a text message whose type is neither
\* tts_update nor asr_update runs to its end (it logs the warning), calls
\* neither params.onTTS nor params.onASR nor params.onError, and leaves the
\* status as it was.
C15_UnknownTypeDiscarded ==
    ( /\ rxLast.op = "message"
      /\ inbox[rxLast.msg].kind = "text"
      /\ inbox[rxLast.msg].type \notin { "tts_update", "asr_update" } )
        => /\ rxLast.msg \in rxWarned
           /\ textCalls = rxLast.textCalls
           /\ audioChunks = rxLast.audioChunks
           /\ rxErrorCalls = rxLast.errorCalls
           /\ connectionStatus = rxLast.status

\* C15 witness: a message of type ping arrived in status Connected after a
\* TTS update had been dispatched.
C15_Witness ==
    /\ rxLast.op = "message"
    /\ inbox[rxLast.msg].type = "ping"
    /\ Len(rxLast.textCalls) = 1
    /\ connectionStatus = "connected"

\* the handler calls the first n messages ask for: one params.onTTS call
\* with the tts member per tts_update, one params.onASR call with the asr
\* member per asr_update, in arrival order
RECURSIVE TextCallsOf(_)
TextCallsOf(n) ==
    IF n = 0 THEN << >>
    ELSE IF inbox[n].kind = "text" /\ inbox[n].type = "tts_update"
    THEN Append(TextCallsOf(n - 1),
                [ handler |-> "onTTS", msg |-> n, text |-> inbox[n].tts ])
    ELSE IF inbox[n].kind = "text" /\ inbox[n].type = "asr_update"
    THEN Append(TextCallsOf(n - 1),
                [ handler |-> "onASR", msg |-> n, text |-> inbox[n].asr ])
    ELSE TextCallsOf(n - 1)

\* C16: the calls of the TTS and ASR handlers are, in order, exactly one
\* params.onTTS call with its tts string for each tts_update message and
\* one params.onASR call with its asr string for each asr_update message.
C16_TextDispatch == textCalls = TextCallsOf(Len(inbox))

\* C16 witness: an ASR update and then a TTS update were dispatched, with
\* another message between them.
C16_Witness ==
    /\ Len(inbox) = 3
    /\ Len(textCalls) = 2
    /\ textCalls[1] = [ handler |-> "onASR", msg |-> 1, text |-> "hi there" ]
    /\ textCalls[2] = [ handler |-> "onTTS", msg |-> 3, text |-> "hello" ]

(***************************************************************************)
(* Properties of useMicrophone.                                            *)
(***************************************************************************)
\* the changes of micAccessState made so far, as pairs (from, to)
AccessChanges ==
    { << accessTrace[k], accessTrace[k + 1] >> :
        k \in { n \in 1 .. Len(accessTrace) - 1 : accessTrace[n] # accessTrace[n + 1] } }

\* what the steps of a request leave: Loading after the startRecording
\* call made in Initial, Granted after the worklet module is loaded, and
\* Error with the triggering error after a failure
C18_StepsOk ==
    /\ ( micLast.op = "start" /\ micLast.access = "INITIAL" /\ micLast.failed = "none" )
           => micAccessState = "LOADING"
    /\ ( micLast.op = "addModule" /\ micLast.failed = "none" )
           => micAccessState = "GRANTED"
    /\ micLast.failed # "none"
           => micAccessState = "ERROR" /\ micError = micLast.failed

\* C18 as stated: micAccessState changes from Initial to Loading, from
\* Loading to Granted and from Loading to Error only.
C18_AccessTransitions ==
    /\ C18_StepsOk
    /\ AccessChanges \subseteq { << "INITIAL", "LOADING" >>,
                                 << "LOADING", "GRANTED" >>,
                                 << "LOADING", "ERROR" >> }

\* C18 amended: micAccessState changes from Initial to Loading, from
\* Loading to Granted and from Loading to Error, from Error to Loading
\* (startRecording called after a failure), and, when the requests of
\* overlapping startRecording calls settle one after the other, from
\* Granted to Error and from Error to Granted; in no other way.
C18_AccessTransitionsWithRetry ==
    /\ C18_StepsOk
    /\ AccessChanges \subseteq { << "INITIAL", "LOADING" >>,
                                 << "LOADING", "GRANTED" >>,
                                 << "LOADING", "ERROR" >>,
                                 << "ERROR", "LOADING" >>,
                                 << "GRANTED", "ERROR" >>,
                                 << "ERROR", "GRANTED" >> }

\* C18 witness: a first request was denied, and a second startRecording
\* call led to Granted.
C18_Witness ==
    /\ accessTrace = << "INITIAL", "LOADING", "ERROR", "LOADING", "GRANTED" >>
    /\ micErrorCalls = << [ req |-> 1, error |-> "permission denied" ] >>
    /\ micLast.op = "addModule"

\* C19: a startRecording or stopRecording call made in Granted leaves
\* micAccessState Granted, calls getUserMedia not at all, suspends no new
\* request, creates no source and no worklet node, and only resumes or
\* suspends the existing AudioContext and sets isRecording accordingly.
C19_GrantedOnlyToggles ==
    ( micLast.op \in { "start", "stop" } /\ micLast.access = "GRANTED" )
        => /\ micAccessState = "GRANTED"
           /\ gumCalls = micLast.gumCalls
           /\ requests = micLast.requests
           /\ sources = micLast.sources
           /\ taps = micLast.taps
           /\ micLast.ctx # "null"
           /\ isRecording = ( micLast.op = "start" )
           /\ micAudioCtx = IF micLast.op = "start" THEN "running" ELSE "suspended"

\* C19 witness: recording was stopped and then started again in Granted.
C19_Witness ==
    /\ micLast.op = "start"
    /\ micLast.access = "GRANTED"
    /\ micLast.ctx = "suspended"
    /\ ~ micLast.isRecording
    /\ isRecording
    /\ taps = 1

\* C20: the step that handles a failed request (insecure context,
\* permission denied, or the capture graph not built) leaves micAccessState
\* Error with that error, calls onError once with it, and issues no
\* request; onError is called once only for a request, and getUserMedia is
\* never called more often than startRecording was.
C20_FailureReportedOnce ==
    /\ micLast.failed # "none"
           => /\ micAccessState = "ERROR"
              /\ micError = micLast.failed
              /\ Len(micErrorCalls) = micLast.errorCalls + 1
              /\ micErrorCalls[Len(micErrorCalls)]
                    = [ req |-> micLast.req, error |-> micLast.failed ]
              /\ gumCalls = micLast.gumCalls
              /\ requests = { rq \in micLast.requests : rq.id # micLast.req }
    /\ \A i, j \in DOMAIN micErrorCalls :
           i # j => micErrorCalls[i].req # micErrorCalls[j].req
    /\ gumCalls <= startCalls

\* C20 witness: a first request was denied, and a second one failed when
\* the capture graph was built.
C20_Witness ==
    /\ micLast.failed = "graph construction"
    /\ micErrorCalls = << [ req |-> 1, error |-> "permission denied" ],
                          [ req |-> 2, error |-> "graph construction" ] >>
    /\ requests = { }

\* C21: a startRecording call made in an insecure context ends in Error
\* with the insecure-context error given to onError, calls getUserMedia
\* not at all and creates no AudioContext, source or worklet node; in an
\* insecure context none of these is ever made.
C21_InsecureContextFailsEarly ==
    /\ ( micLast.op = "start" /\ micLast.failed = "insecure context" )
           => /\ micAccessState = "ERROR"
              /\ micError = "insecure context"
              /\ Len(micErrorCalls) = micLast.errorCalls + 1
              /\ micErrorCalls[Len(micErrorCalls)].error = "insecure context"
              /\ gumCalls = micLast.gumCalls
              /\ requests = micLast.requests
    /\ secureContext = "insecure"
           => /\ gumCalls = 0
              /\ requests = { }
              /\ micAudioCtx = "null"
              /\ sources = 0
              /\ taps = 0

\* C21 witness: two startRecording calls were made in an insecure context.
C21_Witness ==
    /\ secureContext = "insecure"
    /\ micLast.op = "start"
    /\ micLast.req = 2
    /\ micLast.failed = "insecure context"
    /\ Len(micErrorCalls) = 2

\* C30: isRecording is true only if micAccessState is Granted.
C30_RecordingOnlyIfGranted == isRecording => micAccessState = "GRANTED"

(***************************************************************************)
(* Properties of the uplink.                                               *)
(***************************************************************************)
\* the captured chunks the frames written to the first n sockets hold, in
\* the order of the writes (a later socket is written after an earlier one)
RECURSIVE FrameCalls(_)
FrameCalls(n) ==
    IF n = 0 THEN << >>
    ELSE FrameCalls(n - 1)
           \o [ i \in 1 .. Len(channels[n].frames) |-> channels[n].frames[i].call ]

HasMarkers(b) ==
    /\ Len(b) >= 12
    /\ SubSeq(b, 1, 4) = RIFF
    /\ SubSeq(b, 9, 12) = WAVE

\* C23: extractWavSampleRate on the container pcmToWav made of (pcm,
\* sampleRate, numChannels) returns sampleRate, and the field at bytes
\* 40-43 of the container is the byte length of pcm.
C23_RoundTrip ==
    wavRate # NotRun
        => /\ wavRate = [ thrown |-> "none", value |-> wavIn.sampleRate ]
           /\ U32LE(wavOut, 40) = Len(wavIn.pcm)

\* C23 witness: the round trip was made for a stereo payload at the rate
\* that fills the four bytes of its field.
C23_Witness ==
    /\ wavRate # NotRun
    /\ wavIn.sampleRate = 50331653
    /\ wavIn.numChannels = 2
    /\ Len(wavIn.pcm) = 4

\* C24: extractWavSampleRate throws the invalid-container error on bytes
\* that lack one of the markers, and returns the little-endian field at
\* bytes 24-27 on bytes that have both.
C24_HeaderValidation ==
    peekOut # NotRun
        => IF HasMarkers(peekIn)
           THEN /\ peekOut.thrown = "none"
                /\ Len(peekIn) >= 28
                /\ peekOut.value = U32LE(peekIn, 24)
           ELSE peekOut.thrown = "Invalid WAV file"

\* C25: the container has the length 44 + the payload's, the field at
\* bytes 4-7 is that length minus 8, the byte rate is sampleRate *
\* numChannels * 2, the block align numChannels * 2, the bits per sample
\* 16, and the bytes from 44 on are the payload; ten payload bytes give 54.
C25_HeaderConsistent ==
    wavOut # << >>
        => /\ Len(wavOut) = 44 + Len(wavIn.pcm)
           /\ U32LE(wavOut, 4) = Len(wavOut) - 8
           /\ U16LE(wavOut, 22) = wavIn.numChannels
           /\ U32LE(wavOut, 28) = wavIn.sampleRate * wavIn.numChannels * 2
           /\ U16LE(wavOut, 32) = wavIn.numChannels * 2
           /\ U16LE(wavOut, 34) = 16
           /\ U32LE(wavOut, 40) = Len(wavIn.pcm)
           /\ SubSeq(wavOut, 45, Len(wavOut)) = wavIn.pcm
           /\ Len(wavIn.pcm) = 10 => Len(wavOut) = 54

\* C25 witness: the five samples were encoded mono at 16 kHz.
C25_Witness ==
    /\ wavIn = [ pcm |-> << 1, 0, 2, 0, 3, 0, 4, 0, 5, 0 >>,
                 sampleRate |-> 16000, numChannels |-> 1 ]
    /\ Len(wavOut) = 54

(***************************************************************************)
(* Properties of the chat history and of the endpoint URL.                 *)
(***************************************************************************)
\* C26: every add call, made directly or by the text handlers of the
\* connection, leaves the chat history equal to the history before the call
\* with exactly the new entry appended at its end.
C26_AddAppends ==
    chatLast.op \in { "add", "message" } =>
        entries = Append(chatLast.entries,
                         [ text |-> chatLast.text, author |-> chatLast.author ])

\* the parameter parses as a URL with the scheme ws or wss
WebsocketScheme(value) ==
    /\ ~ NewURL(value).thrown
    /\ NewURL(value).protocol \in { << "w", "s", ":" >>, << "w", "s", "s", ":" >> }

\* C27: once the hook has rendered, the base URL is the parameter the first
\* render read when that has a ws or wss scheme, with no error reported; the
\* default with no error when the parameter was absent; the default with
\* exactly one error when the parameter had another scheme or did not parse;
\* and a render that finds the base URL resolved leaves it as it is.
C27_BaseUrlResolution ==
    renderCount > 0 =>
        /\ ( urlFirst.present /\ WebsocketScheme(urlFirst.value) ) =>
               urlRef = urlFirst.value /\ urlErrors = << >>
        /\ ~ urlFirst.present =>
               urlRef = DEFAULT_WEBSOCKET_BASE_URL /\ urlErrors = << >>
        /\ ( urlFirst.present /\ ~ WebsocketScheme(urlFirst.value) ) =>
               urlRef = DEFAULT_WEBSOCKET_BASE_URL /\ Len(urlErrors) = 1
        /\ urlLast.before # << >> => urlRef = urlLast.before

(***************************************************************************)
(* Properties of overlapping microphone calls.                             *)
(***************************************************************************)
\* C31: when the last call was a stopRecording() made while a permission
\* request was pending, then once the request has resolved with access
\* granted isRecording is false and the capture graph is suspended.
C31_StopWhilePendingWins ==
    ( /\ micCall.op = "stop"
      /\ micCall.pending # { }
      /\ requests = { }
      /\ micAccessState = "GRANTED" ) =>
        ~ isRecording /\ micAudioCtx = "suspended"

\* C32: whatever the interleaving of startRecording() calls and of their
\* permission requests, at most one capture tap is connected, so that a
\* captured chunk reaches onAudioChunkAvailable once.
C32_AtMostOneTap == taps <= 1

(***************************************************************************)
(* Properties of reconnection.                                             *)
(***************************************************************************)
\* the sockets made by connect() that are connecting or open
LiveChannels ==
    { c \in Created : channels[c].readyState \in { "CONNECTING", "OPEN" } }

\* C33: after any sequence of connect() calls and socket events, at most
\* one socket made by the manager is connecting or open.
C33_AtMostOneLiveChannel == Cardinality(LiveChannels) <= 1

(***************************************************************************)
(* Properties of the playback position and of the reset timer.             *)
(***************************************************************************)
\* the time, in ms, the samples before position pos take to play at rate
PlayTime(pos, rate) == chunkDuration(pos, rate)

\* the samples the buffer can hold of a write offset
Held(pos, rate) ==
    IF pos <= rate * AUDIO_BUFFER_LENGTH_SEC THEN pos
    ELSE rate * AUDIO_BUFFER_LENGTH_SEC

\* C34: a chunk appended to a sequence that is playing is written at or
\* ahead of the playback position (the play time of the offset is at least
\* the elapsed time), and when the reset timer fires the elapsed time
\* covers every sample written to the buffer.
C34_AheadOfPlayback ==
    /\ ( /\ playLast.op = "play"
         /\ playLast.sequenceStartedAt # 0
         /\ playLast.chunk.sampleRate = playLast.audioCtxRate )
           => PlayTime(playLast.offset, playLast.audioCtxRate)
                 >= now - playLast.sequenceStartedAt
    /\ ( playLast.op = "timer" /\ playLast.offset > 0 )
           => /\ playLast.sequenceStartedAt # 0
              /\ now - playLast.sequenceStartedAt
                    >= PlayTime(Held(playLast.offset, playLast.audioCtxRate),
                                playLast.audioCtxRate)

\* C35: in every state at most one reset timer is pending.
C35_AtMostOneTimer == Cardinality(timers) <= 1

\* C35 witness: a play() call found a timer pending and armed another.
C35_Witness ==
    /\ playLast.op = "play"
    /\ playLast.timers # { }
    /\ Cardinality(timers) = 1
    /\ timers \cap playLast.timers = { }

\* C36: no source node that reset() replaced is still connected to the
\* destination, so that the current node is the only one connected.
C36_OneNodeConnected == lingering = 0

(***************************************************************************)
(* Properties of the entrypoint script.                                    *)
(***************************************************************************)
\* C37: once the script has exited, none of the children it started is
\* running, whatever the exit path; and an exit taken from the monitor
\* loop, which is taken when a child has ended, has status 1.
C37_ChildrenEndWithScript ==
    /\ scriptPc = "exited" => \A p \in DOMAIN children : children[p] # "running"
    /\ ( scriptPc = "exited" /\ exitFrom = "monitor" ) => exitStatus = 1

====
